---------------------------- MODULE Spec2Model ----------------------------
(***************************************************************************)
(* Model of the pitch-to-chord pipeline of hulin32/chord:                  *)
(*   packages/music-theory/src/chord-detection.ts   (chord matcher, score) *)
(*   packages/music-theory/src/note-conversion.ts   (note quantizer)       *)
(*   packages/music-theory/src/frequency-utils.ts   (harmonic filter)      *)
(*   packages/audio/src/wav-decoder.d.ts            (Goertzel extractor)   *)
(* Every stage is a pure function; each gets a specification whose Init    *)
(* draws the arguments of one call and whose action performs the call.     *)
(***************************************************************************)
EXTENDS Integers, Sequences, FiniteSets

VARIABLES
    phase,          \* "ready" before the call of the stage under study, "done" after
    detectedNotes,  \* calculateConfidence: first argument
    chordNotes,     \* calculateConfidence: second argument
    confidence,     \* calculateConfidence: returned number (a binary64 value)
    notes,          \* detectChordsFromNotes / analyzeChordFromNotes: argument
    chords,         \* detectChordsFromNotes: returned list
    analysis,       \* analyzeChordFromNotes: returned result, or Null
    peaks,          \* filterHarmonicPeaks: argument (list of FrequencyPeak)
    options,        \* filterHarmonicPeaks: options after defaults
    fundamentals,   \* filterHarmonicPeaks: returned list, as indices into peaks
    scores,         \* extractFrequenciesFromAudioData: score summed over the windows, per grid note
    mags,           \* extractFrequenciesFromAudioData: weighted score per grid note
    extracted,      \* extractFrequenciesFromAudioData: returned frequencies
    frequencies,    \* frequenciesToNotes: argument
    pitchClasses,   \* frequenciesToNotes: returned list
    frequency,      \* frequencyToNoteInfo: argument
    noteInfo,       \* frequencyToNoteInfo: returned NoteInfo, or Null
    frequencyData,  \* findFrequencyPeaks / extractDominantFrequencies...: the Uint8Array argument
    binning,        \* sampleRate and fftSize of the call
    peakOptions,    \* findFrequencyPeaks: options after defaults, minAmplitude in hundredths
    threshold,      \* calculateAdaptiveThreshold: returned number, in hundredths
    foundPeaks,     \* findFrequencyPeaks: returned list
    dominant,       \* extractDominantFrequencies / ...FromFFT: returned frequencies
    channelData,    \* extractFrequenciesFromAudioData: the sample buffer, or Null
    windows,        \* extractFrequenciesFromAudioData: the Hann-windowed segments
    isAnalyzing,    \* AudioAnalyzer: the field isAnalyzing
    analyser,       \* AudioAnalyzer: the field analyser, or Null
    microphone,     \* AudioAnalyzer: the field microphone, or Null
    dataArray,      \* AudioAnalyzer: the field dataArray, or Null
    audioBlob,      \* analyzeAudioBlob: argument, or Null
    promise,        \* analyzeAudioBlob: the promise the call returned
    arrArg,         \* combinations: the argument arr
    kArg,           \* combinations: the argument k
    idxVec,         \* combinations: idx, as positions from 1
    resultList,     \* combinations: result, the subsets pushed so far
    calls,          \* overlapping analyzeAudioBlob calls: position, locals and promise of each
    offlineContext, \* FFTAnalyzer: the field offlineContext of each instance, or Null
    pendingFrames,  \* requestAnimationFrame: the number of analyze callbacks it holds
    callbackLog,    \* startAnalysis: the calls of the user callback, by frame number
    frameCount,     \* the number of animation frames that ran
    stream,         \* AudioRecorder: this.stream, a stream number or 0 for null
    mediaRecorder,  \* AudioRecorder: this.mediaRecorder, a recorder number or 0 for null
    audioChunks,    \* AudioRecorder: this.audioChunks
    streams,        \* the MediaStreams getUserMedia returned: "live" or "ended"
    recorders,      \* the MediaRecorders constructed so far
    startCalls,     \* the promises of the startRecording calls
    stopCalls,      \* the promises of the stopRecording calls
    expectedChord,  \* analyzeAudio: expectedChord.name, character by character
    detectedChords, \* analyzeAudio: the chord names analyzeAudioBlob resolved with
    isCorrect,      \* analyzeAudio: the value returned
    currentChord,   \* practice page: the chord displayed
    practiceMode,   \* practice page: "all" or "group"
    pageRecording,  \* practice page: the state isRecording
    pageAnalyzing,  \* practice page: the state isAnalyzing
    visualFeedback, \* practice page: "success", "error" or "none" for null
    closure,        \* practice page: the recorder with the currentChord its handlers closed over
    timeouts,       \* practice page: the setTimeout callbacks not yet run, oldest first
    attempts        \* practice page: per attempt, the chord shown at the stop and the chord judged

\* The variables of the stages up to analyzeAudioBlob, phase apart.
stageVars == <<detectedNotes, chordNotes, confidence, notes, chords, analysis,
               peaks, options, fundamentals, scores, mags, extracted, frequencies, pitchClasses,
               frequency, noteInfo,
               frequencyData, binning, peakOptions, threshold, foundPeaks, dominant,
               channelData, windows,
               isAnalyzing, analyser, microphone, dataArray, audioBlob, promise>>

\* The variables of combinations.
combVars == <<arrArg, kArg, idxVec, resultList>>

\* The variables added after analyzeAudioBlob.
\* The variables of the overlapping analyzeAudioBlob calls.
overlapVars == <<calls, offlineContext>>

\* The variables of the analysis loop.
loopVars == <<pendingFrames, callbackLog, frameCount>>

\* The variables of the recorder.
recVars == <<stream, mediaRecorder, audioChunks, streams, recorders, startCalls, stopCalls>>

\* The variables of analyzeAudio.
matchVars == <<expectedChord, detectedChords, isCorrect>>

\* The variables of the practice page.
pageVars == <<currentChord, practiceMode, pageRecording, pageAnalyzing, visualFeedback,
              closure, timeouts, attempts>>

laterVars == <<combVars, overlapVars, loopVars, recVars, matchVars, pageVars>>

vars == <<phase, detectedNotes, chordNotes, confidence, notes, chords, analysis,
          peaks, options, fundamentals, scores, mags, extracted, frequencies, pitchClasses,
          frequency, noteInfo,
          frequencyData, binning, peakOptions, threshold, foundPeaks, dominant,
          channelData, windows,
          isAnalyzing, analyser, microphone, dataArray, audioBlob, promise, laterVars>>

Null == [null |-> TRUE]

(***************************************************************************)
(* Sequence helpers.                                                       *)
(***************************************************************************)
Range(s) == {s[i] : i \in DOMAIN s}

SeqsUpTo(S, n) == UNION {[1..k -> S] : k \in 0..n}

Includes(s, x) == \E i \in DOMAIN s : s[i] = x

\* The elements of s at the positions idx, in order.
AtPositions(s, idx) ==
    [j \in 1..Cardinality(idx) |->
        s[CHOOSE i \in idx : Cardinality({k \in idx : k <= i}) = j]]

\* Array.prototype.filter, the predicate given as the set of values it keeps.
FilterIn(s, keep) == AtPositions(s, {i \in DOMAIN s : s[i] \in keep})

\* [...new Set(s)] / Array.from(new Set(s)): first occurrences, in order.
Unique(s) == AtPositions(s, {i \in DOMAIN s : \A j \in 1..(i - 1) : s[j] # s[i]})

Perms(n) == {p \in [1..n -> 1..n] : \A i, j \in 1..n : i # j => p[i] # p[j]}

Permute(s, p) == [i \in 1..Len(s) |-> s[p[i]]]

(***************************************************************************)
(* IEEE-754 binary64 numbers, as far as calculateConfidence uses them:     *)
(* non-negative finite values, + and / rounding to nearest, ties to even.  *)
(* A positive value is [e, m]: m holds the 53 significand bits, most       *)
(* significant first, m[1] = 1, and the value is m * 2^(e - 52).           *)
(***************************************************************************)
Zeros(n) == [i \in 1..n |-> 0]

FZero == [e |-> 0, m |-> Zeros(53)]

FOne == [e |-> 0, m |-> <<1>> \o Zeros(52)]

\* The literal 0.4 = 0x1.999999999999Ap-2.
F04 == [e |-> -2,
        m |-> <<1>> \o [i \in 1..48 |-> IF i % 4 \in {0, 1} THEN 1 ELSE 0] \o <<1, 0, 1, 0>>]

IsZero(x) == x.m[1] = 0

\* a + b for two bit strings of one length n; the sum has n + 1 bits. The
\* carry into position i comes from the nearest lower position that generates
\* one (1 + 1) through positions that propagate it (0 + 1).
AddBits(a, b) ==
    LET n == Len(a)
        settled == {j \in 1..n : a[j] + b[j] # 1}
        c(i) == LET below == {j \in settled : j > i}
                IN IF below = {} THEN 0
                   ELSE LET j == CHOOSE x \in below : \A y \in below : x <= y
                        IN IF a[j] + b[j] = 2 THEN 1 ELSE 0
    IN [i \in 1..(n + 1) |-> IF i = 1 THEN c(0) ELSE (a[i - 1] + b[i - 1] + c(i - 1)) % 2]

\* bits (leading bit 1, at least 53 of them, leading bit worth 2^e) plus a
\* non-zero remainder below the last bit when sticky: rounded to 53 bits.
RoundBits(bits, e, sticky) ==
    LET kept == SubSeq(bits, 1, 53)
        rest == SubSeq(bits, 54, Len(bits))
        below == sticky \/ \E i \in 2..Len(rest) : rest[i] = 1
        up == /\ Len(rest) >= 1
              /\ rest[1] = 1
              /\ (below \/ kept[53] = 1)
        inc == AddBits(kept, Zeros(52) \o <<1>>)
    IN IF ~up THEN [e |-> e, m |-> kept]
       ELSE IF inc[1] = 1 THEN [e |-> e + 1, m |-> SubSeq(inc, 1, 53)]
       ELSE [e |-> e, m |-> SubSeq(inc, 2, 54)]

\* x + y
FAdd(x, y) ==
    IF IsZero(x) THEN y
    ELSE IF IsZero(y) THEN x
    ELSE LET hi == IF x.e >= y.e THEN x ELSE y
             lo == IF x.e >= y.e THEN y ELSE x
             d == hi.e - lo.e
             s == AddBits(hi.m \o Zeros(d), Zeros(d) \o lo.m)
         IN IF s[1] = 1 THEN RoundBits(s, hi.e + 1, FALSE)
            ELSE RoundBits(Tail(s), hi.e, FALSE)

\* x / n for an integer 1 <= n < 16: long division of the significand, extended
\* by guard bits, in limbs of 15 bits; the remainder gives the sticky bit.
FDivInt(x, n) ==
    IF IsZero(x) THEN FZero
    ELSE LET LimbBits == 15
             LimbCount == 5
             len == LimbBits * LimbCount
             pad == 8
             dividend == Zeros(pad) \o x.m \o Zeros(len - pad - 53)
             limb(k) == LET w == [j \in 1..LimbBits |->
                                     dividend[(k - 1) * LimbBits + j] * 2^(LimbBits - j)]
                            sum[j \in 0..LimbBits] == IF j = 0 THEN 0 ELSE sum[j - 1] + w[j]
                        IN sum[LimbBits]
             rem[k \in 0..LimbCount] ==
                 IF k = 0 THEN 0 ELSE (rem[k - 1] * 2^LimbBits + limb(k)) % n
             quot(k) == (rem[k - 1] * 2^LimbBits + limb(k)) \div n
             qs == [k \in 1..LimbCount |-> quot(k)]
             q == [i \in 1..len |->
                      (qs[((i - 1) \div LimbBits) + 1] \div 2^(LimbBits - 1 - ((i - 1) % LimbBits))) % 2]
             first == CHOOSE i \in 1..len : q[i] = 1 /\ \A j \in 1..(i - 1) : q[j] = 0
         IN RoundBits(SubSeq(q, first, len), x.e - (first - 1 - pad), rem[LimbCount] # 0)

\* The binary64 value of a small integer k >= 0 (exact).
IntToDouble(k) ==
    IF k = 0 THEN FZero
    ELSE LET width == CHOOSE w \in 1..30 : 2^(w - 1) <= k /\ k < 2^w
             bits == [i \in 1..width |-> (k \div 2^(width - i)) % 2]
         IN [e |-> width - 1, m |-> bits \o Zeros(53 - width)]

\* x <= y
FLeq(x, y) ==
    IF IsZero(x) THEN TRUE
    ELSE IF IsZero(y) THEN FALSE
    ELSE IF x.e # y.e THEN x.e < y.e
    ELSE LET diff == {i \in 1..53 : x.m[i] # y.m[i]}
         IN diff = {} \/ LET k == CHOOSE i \in diff : \A j \in diff : i <= j
                         IN x.m[k] < y.m[k]

(***************************************************************************)
(* Note names. A pitch-class name is a letter (step 0..6 for C..B) with an *)
(* alteration (-2..2 for bb..##); the library keeps the spelling it is     *)
(* given, so C# and Db are different names of one chroma.                  *)
(***************************************************************************)
NAMES == << <<"Cbb", "Dbb", "Ebb", "Fbb", "Gbb", "Abb", "Bbb">>,
            <<"Cb", "Db", "Eb", "Fb", "Gb", "Ab", "Bb">>,
            <<"C", "D", "E", "F", "G", "A", "B">>,
            <<"C#", "D#", "E#", "F#", "G#", "A#", "B#">>,
            <<"C##", "D##", "E##", "F##", "G##", "A##", "B##">> >>

NameOf(step, alt) == NAMES[alt + 3][step + 1]

Spellings == (0..6) \X (-2..2)

PitchClassNames == {NameOf(sa[1], sa[2]) : sa \in Spellings}

Spelling(name) == CHOOSE sa \in Spellings : NameOf(sa[1], sa[2]) = name

StepChroma == <<0, 2, 4, 5, 7, 9, 11>>

ChromaOfName ==
    [name \in PitchClassNames |->
        LET sa == Spelling(name) IN (StepChroma[sa[1] + 1] + sa[2] + 12) % 12]

\* Note.get(name).chroma
Chroma(name) == ChromaOfName[name]

\* Names that carry an octave, with the pitch class Note.get(..).pc gives them.
OctaveNames == [C4 |-> "C", E4 |-> "E", G4 |-> "G"]

\* Note.get(n).pc: the pitch class of a note name, "" for what is no note name.
NotePc(n) ==
    IF n \in PitchClassNames THEN n
    ELSE IF n \in DOMAIN OctaveNames THEN OctaveNames[n]
    ELSE ""

\* normalizeNotes: notes.map(n => Note.get(n).pc).filter(Boolean)
normalizeNotes(ns) == FilterIn([i \in DOMAIN ns |-> NotePc(ns[i])], PitchClassNames)

\* transpose(tonic, interval): an interval is <<letter steps, semitones>>.
Transpose(name, ivl) ==
    LET sa == Spelling(name)
        step == (sa[1] + ivl[1]) % 7
        chroma == (Chroma(name) + ivl[2]) % 12
        alt == ((chroma - StepChroma[step + 1] + 18) % 12) - 6
    IN NameOf(step, alt)

(***************************************************************************)
(* The chord dictionary of the tonal library, as far as the pipeline's     *)
(* chord qualities go: first alias and intervals of each chord type.       *)
(***************************************************************************)
ChordTypes == <<
    [alias |-> "M",    intervals |-> << <<0, 0>>, <<2, 4>>, <<4, 7>> >>],
    [alias |-> "m",    intervals |-> << <<0, 0>>, <<2, 3>>, <<4, 7>> >>],
    [alias |-> "7",    intervals |-> << <<0, 0>>, <<2, 4>>, <<4, 7>>, <<6, 10>> >>],
    [alias |-> "maj7", intervals |-> << <<0, 0>>, <<2, 4>>, <<4, 7>>, <<6, 11>> >>],
    [alias |-> "m7",   intervals |-> << <<0, 0>>, <<2, 3>>, <<4, 7>>, <<6, 10>> >>],
    [alias |-> "dim",  intervals |-> << <<0, 0>>, <<2, 3>>, <<4, 6>> >>],
    [alias |-> "aug",  intervals |-> << <<0, 0>>, <<2, 4>>, <<4, 8>> >>],
    [alias |-> "sus2", intervals |-> << <<0, 0>>, <<1, 2>>, <<4, 7>> >>],
    [alias |-> "sus4", intervals |-> << <<0, 0>>, <<3, 5>>, <<4, 7>> >>],
    [alias |-> "5",    intervals |-> << <<0, 0>>, <<4, 7>> >>] >>

TypeChromas ==
    [t \in DOMAIN ChordTypes |->
        {ChordTypes[t].intervals[i][2] : i \in DOMAIN ChordTypes[t].intervals}]

\* The first of the notes ns that has chroma c.
NoteNameOf(ns, c) ==
    ns[CHOOSE i \in DOMAIN ns : Chroma(ns[i]) = c /\ \A j \in 1..(i - 1) : Chroma(ns[j]) # c]

\* Every <<root chroma, chord type>> the library tries for a set of chromas, in
\* the order it visits them: roots in chroma order, types in dictionary order.
Visits(chromas) ==
    LET roots == AtPositions([c \in 1..12 |-> c - 1], {c + 1 : c \in chromas})
    IN [k \in 1..(Cardinality(chromas) * Len(ChordTypes)) |->
           <<roots[((k - 1) \div Len(ChordTypes)) + 1], ((k - 1) % Len(ChordTypes)) + 1>>]

\* The visits whose chord type has exactly the given chromas, read from the root.
Matches(chromas) ==
    {v \in (0..11) \X DOMAIN ChordTypes :
        v[1] \in chromas /\ TypeChromas[v[2]] = {(x - v[1] + 12) % 12 : x \in chromas}}

ChordNames(ns, found, bass) ==
    [i \in DOMAIN found |->
        [tonic |-> NoteNameOf(ns, found[i][1]),
         alias |-> ChordTypes[found[i][2]].alias,
         bass |-> bass]]

\* The chords found for the normalised notes ns: the readings from the first
\* note (weight 1) come first, the inversions (weight 0.5, named root + type +
\* "/" + first note) follow.
DetectedFrom(ns, visits, matches) ==
    ChordNames(ns, FilterIn(visits, {v \in matches : v[1] = Chroma(ns[1])}), "")
    \o ChordNames(ns, FilterIn(visits, {v \in matches : v[1] # Chroma(ns[1])}), ns[1])

DetectedIn(ns, chromas) == DetectedFrom(ns, Visits(chromas), Matches(chromas))

DetectNormalized(ns) ==
    IF ns = <<>> THEN <<>> ELSE DetectedIn(ns, {Chroma(ns[i]) : i \in DOMAIN ns})

\* Chord.detect(source)
Chord_detect(source) == DetectNormalized(normalizeNotes(source))

NoChord == [empty |-> TRUE, tonic |-> "", alias |-> "", notes |-> <<>>]

\* Chord.get(name): the chord's notes are its tonic transposed by the type's
\* intervals; a bass that is a chord note rotates them to start from it, any
\* other bass is put in front.
Chord_get(name) ==
    LET ts == {t \in DOMAIN ChordTypes : ChordTypes[t].alias = name.alias}
    IN IF ts = {} \/ name.tonic \notin PitchClassNames THEN NoChord
       ELSE
       LET ivls == ChordTypes[CHOOSE t \in ts : TRUE].intervals
           n == Len(ivls)
           spelled == [i \in 1..n |-> Transpose(name.tonic, ivls[i])]
           at == {i \in 1..n : spelled[i] = name.bass}
           rotated == IF name.bass = "" THEN spelled
                      ELSE IF at # {}
                      THEN LET d == CHOOSE i \in at : TRUE
                           IN [i \in 1..n |-> spelled[((i + d - 2) % n) + 1]]
                      ELSE <<name.bass>> \o spelled
       IN [empty |-> FALSE, tonic |-> name.tonic, alias |-> name.alias, notes |-> rotated]

(***************************************************************************)
(* chord-detection.ts                                                      *)
(***************************************************************************)
semitoneAdjacency ==
    [C |-> <<"B", "Db">>, Db |-> <<"C", "D">>, D |-> <<"Db", "Eb">>,
     Eb |-> <<"D", "E">>, E |-> <<"Eb", "F">>, F |-> <<"E", "Gb">>,
     Gb |-> <<"F", "G">>, G |-> <<"Gb", "Ab">>, Ab |-> <<"G", "A">>,
     A |-> <<"Ab", "Bb">>, Bb |-> <<"A", "B">>, B |-> <<"Bb", "C">>]

\* The credit one detected note adds to the score: 1, 0.4 or nothing.
NoteCredit(note, template) ==
    IF Includes(template, note) THEN FOne
    ELSE LET neighbors == IF note \in DOMAIN semitoneAdjacency
                          THEN semitoneAdjacency[note] ELSE <<>>
         IN IF \E i \in DOMAIN neighbors : Includes(template, neighbors[i])
            THEN F04 ELSE FZero

calculateConfidence(detected, template) ==
    IF Len(template) = 0 THEN FZero
    ELSE LET score[k \in 0..Len(detected)] ==
                 IF k = 0 THEN FZero
                 ELSE FAdd(score[k - 1], NoteCredit(detected[k], template))
         IN FDivInt(score[Len(detected)], Len(template))

\* combinations(arr, k), the while (true) loop: one pass pushes the subset of
\* the index vector idx, then steps idx to its successor or leaves the loop.
RECURSIVE CombinationsLoop(_, _, _, _)
CombinationsLoop(arr, k, idx, result) ==
    LET n == Len(arr)
        pushed == Append(result, [j \in 1..k |-> arr[idx[j]]])
        \* while (i >= 0 && idx[i] === i + n - k) i--
        movable == {i \in 1..k : idx[i] # i + n - k}
    IN IF movable = {} THEN pushed
       ELSE LET i == CHOOSE m \in movable : \A m2 \in movable : m2 <= m
            IN CombinationsLoop(arr, k,
                   [j \in 1..k |-> IF j < i THEN idx[j] ELSE idx[i] + 1 + (j - i)],
                   pushed)

combinations(arr, k) ==
    IF k > Len(arr) \/ k <= 0 THEN <<>>
    ELSE CombinationsLoop(arr, k, [j \in 1..k |-> j], <<>>)

SliceLimit == 6

\* The score refineNotesForChordDetection gives a subset whose first candidate
\* has the notes template: confidence * 100 + chordNotes.length * 10, kept as
\* the fraction <<numerator, denominator>>.
ScoreAgainst(subset, template) ==
    LET matchCount == Cardinality({i \in DOMAIN subset : Includes(template, subset[i])})
        den == IF Len(template) # 0 THEN Len(template) ELSE Len(subset)
    IN <<matchCount * 100 + Len(template) * 10 * den, den>>

SubsetScore(subset) == ScoreAgainst(subset, Chord_get(Chord_detect(subset)[1]).notes)

Greater(a, b) == a[1] * b[2] > b[1] * a[2]

\* The subset the loop over one size leaves in bestSubset: the first of those
\* with the highest score (score > bestScore), <<>> when none has a candidate.
FirstBest(subsets, score) ==
    IF DOMAIN score = {} THEN <<>>
    ELSE subsets[CHOOSE i \in DOMAIN score :
                     /\ \A j \in DOMAIN score : ~Greater(score[j], score[i])
                     /\ \A j \in DOMAIN score : j < i => Greater(score[i], score[j])]

BestOfSubsets(subsets) ==
    FirstBest(subsets, [i \in {j \in DOMAIN subsets : Chord_detect(subsets[j]) # <<>>} |->
                           SubsetScore(subsets[i])])

BestOfSize(limited, size) == BestOfSubsets(combinations(limited, size))

OrElse(first, second) == IF first # <<>> THEN first ELSE second

Slice(s, n) == SubSeq(s, 1, IF Len(s) < n THEN Len(s) ELSE n)

\* sizes = [4, 3]; the loop leaves after the first size that gave a subset.
RefineLimited(limited) ==
    OrElse(BestOfSize(limited, 4), OrElse(BestOfSize(limited, 3), limited))

refineNotesForChordDetection(ns) == RefineLimited(Slice(Unique(ns), SliceLimit))

MinChordNotes == 3

DetectRefined(refined) ==
    IF Len(refined) >= MinChordNotes THEN Chord_detect(refined) ELSE <<>>

\* The chord names of lines 26-33 (detectChordsFromNotes) and 111-117
\* (analyzeChordFromNotes): the full input first, then the refined subset.
DetectedNames(normalizedNotes) ==
    OrElse(Chord_detect(normalizedNotes),
           DetectRefined(refineNotesForChordDetection(normalizedNotes)))

ChordResult(bestMatch, normalizedNotes, chordInfo) ==
    [chord |-> bestMatch,
     confidence |-> calculateConfidence(normalizedNotes, chordInfo.notes),
     notes |-> normalizedNotes,
     root |-> chordInfo.tonic,
     quality |-> chordInfo.alias]

DetectedChords(detected, normalizedNotes) ==
    IF detected = <<>> THEN <<>>
    ELSE <<ChordResult(detected[1], normalizedNotes, Chord_get(detected[1]))>>

DetectChordsNormalized(normalizedNotes) ==
    IF Len(normalizedNotes) < MinChordNotes THEN <<>>
    ELSE DetectedChords(DetectedNames(normalizedNotes), normalizedNotes)

detectChordsFromNotes(ns) ==
    IF Len(ns) < MinChordNotes THEN <<>> ELSE DetectChordsNormalized(normalizeNotes(ns))

AnalyzedChord(detected, normalizedNotes) ==
    IF detected = <<>> THEN Null
    ELSE ChordResult(detected[1], normalizedNotes, Chord_get(detected[1]))

AnalyzeChordNormalized(normalizedNotes) ==
    IF Len(normalizedNotes) < MinChordNotes THEN Null
    ELSE AnalyzedChord(DetectedNames(normalizedNotes), normalizedNotes)

analyzeChordFromNotes(ns) ==
    IF Len(ns) < MinChordNotes THEN Null ELSE AnalyzeChordNormalized(normalizeNotes(ns))

(***************************************************************************)
(* Values of the variables of the stages a specification does not call.    *)
(***************************************************************************)
NoConfidenceCall == detectedNotes = <<>> /\ chordNotes = <<>> /\ confidence = FZero

NoChordCall == notes = <<>> /\ chords = <<>> /\ analysis = Null

NoFilterCall == peaks = <<>> /\ options = [maxMultiple |-> 6, toleranceCents |-> 35]
                /\ fundamentals = <<>>

NoExtractCall == scores = <<>> /\ mags = <<>> /\ extracted = <<>>

NoNotesCall == frequencies = <<>> /\ pitchClasses = <<>> /\ frequency = Null /\ noteInfo = Null

NoPeaksCall ==
    /\ frequencyData = <<>>
    /\ binning = [sampleRate |-> 44100, fftSize |-> 2048]
    /\ peakOptions = [minAmplitude |-> 3000, minProminence |-> 5,
                      minFrequency |-> 80, maxFrequency |-> 2000]
    /\ threshold = 0
    /\ foundPeaks = <<>>
    /\ dominant = <<>>

NoBufferCall == channelData = Null /\ windows = <<>>

\* A new AudioAnalyzer (audio-analyzer.ts 19-23) on which analyzeAudioBlob has
\* not been called.
NoPromise == [state |-> "none"]

\* combinations has not been called.
NoCombinationsCall == arrArg = <<>> /\ kArg = 0 /\ idxVec = <<>> /\ resultList = <<>>

\* No analyzeAudioBlob call is under way.
NoOverlapCall == calls = <<>> /\ offlineContext = <<>>

\* No analysis loop has been started.
NoLoopCall == pendingFrames = 0 /\ callbackLog = <<>> /\ frameCount = 0

\* No recorder has been used.
NoRecorderCall ==
    /\ stream = 0 /\ mediaRecorder = 0 /\ audioChunks = <<>>
    /\ streams = <<>> /\ recorders = <<>> /\ startCalls = <<>> /\ stopCalls = <<>>

\* analyzeAudio has not been called.
NoMatchCall == expectedChord = <<>> /\ detectedChords = <<>> /\ isCorrect = FALSE

\* No recorder has been made by the practice page.
NoClosure == [state |-> "none", chord |-> "", attempt |-> 0]

\* No practice page is mounted.
NoPage ==
    /\ currentChord = "" /\ practiceMode = "all" /\ pageRecording = FALSE /\ pageAnalyzing = FALSE
    /\ visualFeedback = "none" /\ closure = NoClosure /\ timeouts = <<>> /\ attempts = <<>>

NoLaterCall ==
    NoCombinationsCall /\ NoOverlapCall /\ NoLoopCall /\ NoRecorderCall /\ NoMatchCall /\ NoPage

NoBlobCall ==
    /\ isAnalyzing = FALSE
    /\ analyser = Null
    /\ microphone = Null
    /\ dataArray = Null
    /\ audioBlob = Null
    /\ promise = NoPromise

(***************************************************************************)
(* SpecConfidence: one call of calculateConfidence(detectedNotes,          *)
(* chordNotes). The template is the note list of a dictionary chord, as    *)
(* Chord.get hands it to the callers, or the empty list.                   *)
(***************************************************************************)
MaxDetected == 3

ConfidenceNames == {"C", "C#", "Db", "Eb", "E", "Gb", "G", "B"}

TemplateTonics == {"C", "A"}

Templates ==
    {<<>>} \cup {Chord_get([tonic |-> t, alias |-> ChordTypes[k].alias, bass |-> ""]).notes :
                    t \in TemplateTonics, k \in DOMAIN ChordTypes}

InitConfidence ==
    /\ phase = "ready"
    /\ detectedNotes \in SeqsUpTo(ConfidenceNames, MaxDetected)
    /\ chordNotes \in Templates
    /\ confidence = FZero
    /\ NoChordCall /\ NoFilterCall /\ NoExtractCall /\ NoNotesCall /\ NoPeaksCall /\ NoBufferCall
    /\ NoBlobCall
    /\ NoLaterCall

CalculateConfidence ==
    /\ phase = "ready"
    /\ confidence' = calculateConfidence(detectedNotes, chordNotes)
    /\ phase' = "done"
    /\ UNCHANGED <<detectedNotes, chordNotes, notes, chords, analysis, peaks, options,
                   fundamentals, scores, mags, extracted, frequencies, pitchClasses,
                   frequency, noteInfo,
                   frequencyData, binning, peakOptions, threshold, foundPeaks, dominant,
                   channelData, windows,
                   isAnalyzing, analyser, microphone, dataArray, audioBlob, promise, laterVars>>

NextConfidence == CalculateConfidence

SpecConfidence == InitConfidence /\ [][NextConfidence]_vars

(***************************************************************************)
(* SpecChord: one call of detectChordsFromNotes(notes) or of               *)
(* analyzeChordFromNotes(notes).                                           *)
(***************************************************************************)
MaxNotes == 4

ChordInputNames == {"C", "C#", "Db", "E", "G", "Gb", "A", "B", "C4", "invalid"}

\* Inputs of six to eight distinct notes: a chromatic run that holds no chord,
\* alone and followed by G and B, and two inputs that hold C major.
ChromaticSix == <<"C", "Db", "D", "Eb", "E", "F">>

LongNoteLists ==
    {ChromaticSix,
     ChromaticSix \o <<"G">>,
     ChromaticSix \o <<"G", "B">>,
     <<"C", "E", "G", "Db", "D", "Eb", "Bb">>,
     <<"C", "Db", "E", "D", "G", "Eb", "F", "Gb">>}

InitChord ==
    /\ phase = "ready"
    /\ notes \in SeqsUpTo(ChordInputNames, MaxNotes) \cup LongNoteLists
    /\ chords = <<>>
    /\ analysis = Null
    /\ NoConfidenceCall /\ NoFilterCall /\ NoExtractCall /\ NoNotesCall /\ NoPeaksCall /\ NoBufferCall
    /\ NoBlobCall
    /\ NoLaterCall

DetectChordsFromNotes ==
    /\ phase = "ready"
    /\ chords' = detectChordsFromNotes(notes)
    /\ phase' = "detected"
    /\ UNCHANGED <<detectedNotes, chordNotes, confidence, notes, analysis, peaks, options,
                   fundamentals, scores, mags, extracted, frequencies, pitchClasses,
                   frequency, noteInfo,
                   frequencyData, binning, peakOptions, threshold, foundPeaks, dominant,
                   channelData, windows,
                   isAnalyzing, analyser, microphone, dataArray, audioBlob, promise, laterVars>>

AnalyzeChordFromNotes ==
    /\ phase = "ready"
    /\ analysis' = analyzeChordFromNotes(notes)
    /\ phase' = "analyzed"
    /\ UNCHANGED <<detectedNotes, chordNotes, confidence, notes, chords, peaks, options,
                   fundamentals, scores, mags, extracted, frequencies, pitchClasses,
                   frequency, noteInfo,
                   frequencyData, binning, peakOptions, threshold, foundPeaks, dominant,
                   channelData, windows,
                   isAnalyzing, analyser, microphone, dataArray, audioBlob, promise, laterVars>>

NextChord == DetectChordsFromNotes \/ AnalyzeChordFromNotes

SpecChord == InitChord /\ [][NextChord]_vars

(***************************************************************************)
(* Claims about the chord matcher and the confidence scorer.               *)
(***************************************************************************)
\* The distinct pitch classes (chromas) among the note names of a list.
DistinctPitchClasses(ns) ==
    {Chroma(NotePc(ns[i])) : i \in {j \in DOMAIN ns : NotePc(ns[j]) # ""}}

PairwiseDistinctChromas(ns) ==
    \A i, j \in DOMAIN ns : i # j => Chroma(ns[i]) # Chroma(ns[j])

\* C1: a note list with fewer than 3 distinct pitch classes yields no chord
\* candidate: detectChordsFromNotes returns [] and analyzeChordFromNotes null.
C1_FewerThanThreeYieldsNothing ==
    Cardinality(DistinctPitchClasses(notes)) < 3 =>
        /\ phase = "detected" => chords = <<>>
        /\ phase = "analyzed" => analysis = Null

\* C2: for distinct detected pitch classes and a non-empty template,
\* calculateConfidence returns a value in [0, 1].
C2_ConfidenceInUnitInterval ==
    (/\ phase = "done"
     /\ chordNotes # <<>>
     /\ PairwiseDistinctChromas(detectedNotes))
        => FLeq(FZero, confidence) /\ FLeq(confidence, FOne)

\* C3: when the detected notes are all the template notes plus at most one
\* stray note the score is exactly 1.0, and when they are a proper subset of
\* the template the score is |detected| / |template|.
C3_ExtrasIgnoredMissingProportional ==
    (/\ phase = "done"
     /\ chordNotes # <<>>
     /\ PairwiseDistinctChromas(detectedNotes))
        => /\ (/\ Range(chordNotes) \subseteq Range(detectedNotes)
               /\ Len(detectedNotes) <= Len(chordNotes) + 1)
                  => confidence = FOne
           /\ (/\ Range(detectedNotes) \subseteq Range(chordNotes)
               /\ Len(detectedNotes) < Len(chordNotes))
                  => confidence = FDivInt(IntToDouble(Len(detectedNotes)), Len(chordNotes))

\* C4: the score does not depend on the order of the elements of either
\* argument: every permutation of detectedNotes and of templateNotes gives the
\* value the call returned.
C4_OrderIndependent ==
    phase = "done" =>
        /\ \A p \in Perms(Len(detectedNotes)) :
               calculateConfidence(Permute(detectedNotes, p), chordNotes) = confidence
        /\ \A q \in Perms(Len(chordNotes)) :
               calculateConfidence(detectedNotes, Permute(chordNotes, q)) = confidence

\* Replacing the i-th element of a note list by another name.
Respell(ns, i, name) == [ns EXCEPT ![i] = name]

Enharmonics(name) == {n \in ConfidenceNames : Chroma(n) = Chroma(name)}

\* C5: replacing a detected note by an enharmonic spelling of the same pitch
\* class does not change the score.
C5_EnharmonicSpellingsEqual ==
    phase = "done" =>
        \A i \in DOMAIN detectedNotes : \A n \in Enharmonics(detectedNotes[i]) :
            calculateConfidence(Respell(detectedNotes, i, n), chordNotes) = confidence


(***************************************************************************)
(* frequency-utils.ts: filterHarmonicPeaks. A peak is a FrequencyPeak      *)
(* record, frequencies are in tenths of a Hz, and the returned list holds  *)
(* the positions in peaks of the objects it returns.                       *)
(***************************************************************************)
\* 2^(cents / 1200) in units of 1/10000.
CentsRatio == [cents \in {30, 35} |-> IF cents = 30 THEN 10175 ELSE 10204]

\* Math.abs(1200 * Math.log2(frequency / target)) <= toleranceCents
WithinCents(freq, target, toleranceCents) ==
    /\ freq * 10000 <= target * CentsRatio[toleranceCents]
    /\ target * 10000 <= freq * CentsRatio[toleranceCents]

FirstMultipleOnly(opts) == {2}

\* for (let k = 2; k <= maxMultiple; k++)
Multiples(opts) == 2..opts.maxMultiple

\* The inner loops: peak is near a multiple of base.
IsHarmonicOf(peak, base, opts) ==
    \E k \in Multiples(opts) :
        WithinCents(peak.frequency, base.frequency * k, opts.toleranceCents)

FundamentalsCap == 8

NeverCapped(found) == FALSE

\* if (fundamentals.length >= 8) break
CapReached(found) == Len(found) >= FundamentalsCap

\* One pass of the loop over peaks, for the peak at position n, given the
\* positions found so far; after the break no pass changes them.
FilterPass(ps, opts, found, n) ==
    IF CapReached(found) THEN found
    ELSE IF \E i \in DOMAIN found : IsHarmonicOf(ps[n], ps[found[i]], opts) THEN found
    ELSE Append(found, n)

filterHarmonicPeaks(ps, opts) ==
    LET found[n \in 0..Len(ps)] ==
            IF n = 0 THEN <<>> ELSE FilterPass(ps, opts, found[n - 1], n)
    IN found[Len(ps)]

(***************************************************************************)
(* SpecFilter: one call of filterHarmonicPeaks(peaks, options), on short   *)
(* lists over a few frequencies and amplitudes and on long lists that      *)
(* reach the cap.                                                          *)
(***************************************************************************)
MaxPeaks == 4

MaxLongPeaks == 10

PeakFrequencies == {500, 1000, 2000, 2040, 2050, 3000}

PeakAmplitudes == {40, 90}

Peak(f, a) == [frequency |-> f, amplitude |-> a, prominence |-> a]

ShortPeaks == {Peak(f, a) : f \in PeakFrequencies, a \in PeakAmplitudes}

LongPeaks == {Peak(1000, 90), Peak(2000, 40)}

PeakLists ==
    SeqsUpTo(ShortPeaks, MaxPeaks)
        \cup UNION {[1..n -> LongPeaks] : n \in FundamentalsCap..MaxLongPeaks}

\* The options the callers pass: maxMultiple 5 or 6, toleranceCents 35.
FilterOptions == {[maxMultiple |-> m, toleranceCents |-> 35] : m \in {5, 6}}

InitFilter ==
    /\ phase = "ready"
    /\ peaks \in PeakLists
    /\ options \in FilterOptions
    /\ fundamentals = <<>>
    /\ NoConfidenceCall /\ NoChordCall /\ NoExtractCall /\ NoNotesCall /\ NoPeaksCall /\ NoBufferCall
    /\ NoBlobCall
    /\ NoLaterCall

FilterHarmonicPeaks ==
    /\ phase = "ready"
    /\ fundamentals' = filterHarmonicPeaks(peaks, options)
    /\ phase' = "filtered"
    /\ UNCHANGED <<detectedNotes, chordNotes, confidence, notes, chords, analysis, peaks,
                   options, scores, mags, extracted, frequencies, pitchClasses,
                   frequency, noteInfo,
                   frequencyData, binning, peakOptions, threshold, foundPeaks, dominant,
                   channelData, windows,
                   isAnalyzing, analyser, microphone, dataArray, audioBlob, promise, laterVars>>

NextFilter == FilterHarmonicPeaks

SpecFilter == InitFilter /\ [][NextFilter]_vars

(***************************************************************************)
(* Claims about filterHarmonicPeaks.                                       *)
(***************************************************************************)
\* The peaks at positions b and c are at 2x and 3x the frequency of the peak at
\* position a, within the tolerance of the call.
DoubleAndTriple(a, b, c) ==
    /\ WithinCents(peaks[b].frequency, 2 * peaks[a].frequency, options.toleranceCents)
    /\ WithinCents(peaks[c].frequency, 3 * peaks[a].frequency, options.toleranceCents)

FundamentalOnly(a, b, c) ==
    /\ a \in Range(fundamentals)
    /\ b \notin Range(fundamentals)
    /\ c \notin Range(fundamentals)

\* C6: whenever the input holds a peak at f and peaks at 2f and 3f within the
\* tolerance, in any order and with any amplitudes, the output contains the
\* peak at f and neither the 2f nor the 3f peak.
C6_FundamentalKeptAnyOrder ==
    phase = "filtered" =>
        \A a, b, c \in DOMAIN peaks : DoubleAndTriple(a, b, c) => FundamentalOnly(a, b, c)

\* The peak at position a is processed before the cap can stop the loop and is
\* not near a multiple 2..maxMultiple of any peak before it.
LeadingFundamental(a) ==
    /\ a <= 8
    /\ \A p \in 1..(a - 1) : \A k \in 2..options.maxMultiple :
           ~WithinCents(peaks[a].frequency, peaks[p].frequency * k, options.toleranceCents)

\* C6 (amended): the output contains the peak at f and neither the 2f nor the
\* 3f peak when the peak at f stands before both of them in the list, is among
\* the first 8 peaks and is near no multiple 2..maxMultiple of an earlier peak.
C6_FundamentalKeptWhenItLeads ==
    phase = "filtered" =>
        \A a, b, c \in DOMAIN peaks :
            (DoubleAndTriple(a, b, c) /\ a < b /\ a < c /\ LeadingFundamental(a))
                => FundamentalOnly(a, b, c)

C6_LeadingFundamentalFiltered ==
    /\ phase = "filtered"
    /\ \E a, b, c \in DOMAIN peaks :
           /\ a > 1
           /\ DoubleAndTriple(a, b, c) /\ a < b /\ a < c /\ LeadingFundamental(a)
           /\ peaks[b].amplitude > peaks[a].amplitude

\* The accepted positions before position i.
AcceptedBefore(i) == {j \in Range(fundamentals) : j < i}

NearMultipleOfAccepted(i) ==
    \E j \in AcceptedBefore(i) : \E k \in 2..options.maxMultiple :
        WithinCents(peaks[i].frequency, peaks[j].frequency * k, options.toleranceCents)

\* C7: the output is an order-preserving subsequence of the input with at most
\* 8 entries; a peak is left out exactly when it is within toleranceCents of a
\* multiple 2..maxMultiple of a peak accepted before it or 8 peaks were accepted
\* before it; no output peak is near such a multiple of an earlier output peak.
C7_GreedySinglePass ==
    phase = "filtered" =>
        /\ Len(fundamentals) <= 8
        /\ Range(fundamentals) \subseteq DOMAIN peaks
        /\ \A i, j \in DOMAIN fundamentals : i < j => fundamentals[i] < fundamentals[j]
        /\ \A i \in DOMAIN peaks :
               i \notin Range(fundamentals)
                   <=> (NearMultipleOfAccepted(i) \/ Cardinality(AcceptedBefore(i)) >= 8)
        /\ \A i \in Range(fundamentals) : ~NearMultipleOfAccepted(i)

C7_CapAndRejectionSeen ==
    /\ phase = "filtered"
    /\ Len(fundamentals) = 8
    /\ \E i \in DOMAIN peaks : NearMultipleOfAccepted(i)
    /\ \E i \in DOMAIN peaks :
           ~NearMultipleOfAccepted(i) /\ Cardinality(AcceptedBefore(i)) >= 8


(***************************************************************************)
(* wav-decoder.d.ts: extractFrequenciesFromAudioData (Goertzel variant),   *)
(* from the scores of the grid notes on. scores[midi] is the sum over the  *)
(* windows of magFund + 0.5 * mag2 + 0.25 * mag3, a non-negative number;   *)
(* magnitudes are in units of 1/20, frequencies in tenths of a Hz.         *)
(***************************************************************************)
MinMidi == 40

MaxMidi == 76

\* 440 * Math.pow(2, (midi - 69) / 12)
GridFrequency ==
    [midi \in MinMidi..MaxMidi |->
        <<824, 873, 925, 980, 1038, 1100, 1165, 1235, 1308, 1386, 1468, 1556,
          1648, 1746, 1850, 1960, 2077, 2200, 2331, 2469, 2616, 2772, 2937, 3111,
          3296, 3492, 3700, 3920, 4153, 4400, 4662, 4939, 5233, 5544, 5873, 6223,
          6593>>[midi - MinMidi + 1]]

\* freq < 120 ? score * 1.6 : freq < 200 ? score * 1.25 : score
BassWeighted(score, freq) ==
    IF freq < 1200 THEN score * 32 ELSE IF freq < 2000 THEN score * 25 ELSE score * 20

WeightedMags(sc) == [midi \in MinMidi..MaxMidi |-> BassWeighted(sc[midi], GridFrequency[midi])]

Candidates(mg) ==
    [i \in 1..(MaxMidi - MinMidi + 1) |->
        [midi |-> MinMidi + i - 1,
         frequency |-> GridFrequency[MinMidi + i - 1],
         magnitude |-> mg[MinMidi + i - 1]]]

NotBelowNeighbours(mg, c) ==
    /\ (c.midi - 1 \in DOMAIN mg => c.magnitude >= mg[c.midi - 1])
    /\ (c.midi + 1 \in DOMAIN mg => c.magnitude >= mg[c.midi + 1])

\* c.magnitude > left && c.magnitude > right, a neighbour outside the grid
\* being -Infinity
IsLocalMaximum(mg, c) ==
    /\ (c.midi - 1 \in DOMAIN mg => c.magnitude > mg[c.midi - 1])
    /\ (c.midi + 1 \in DOMAIN mg => c.magnitude > mg[c.midi + 1])

LocalMaximaOf(mg, candidates) ==
    FilterIn(candidates, {c \in Range(candidates) : IsLocalMaximum(mg, c)})

\* localMaxima.sort((a, b) => b.magnitude - a.magnitude): descending, equal
\* magnitudes keep their order.
SortedByMagnitude(cs) ==
    [r \in 1..Len(cs) |->
        cs[CHOOSE i \in DOMAIN cs :
               Cardinality({j \in DOMAIN cs :
                               \/ cs[j].magnitude > cs[i].magnitude
                               \/ (cs[j].magnitude = cs[i].magnitude /\ j < i)}) = r - 1]]

RankedMaxima(mg) == SortedByMagnitude(LocalMaximaOf(mg, Candidates(mg)))

\* isHarmonic(baseHz, candHz): toleranceCents 30, k = 2..6
isHarmonic(baseHz, candHz) == \E k \in 2..6 : WithinCents(candHz, baseHz * k, 30)

\* One pass of a selection loop: skip a harmonic of a chosen candidate, push
\* the others until the list has cap entries.
SelectionPass(chosen, c, cap) ==
    IF Len(chosen) >= cap THEN chosen
    ELSE IF \E i \in DOMAIN chosen : isHarmonic(chosen[i].frequency, c.frequency) THEN chosen
    ELSE Append(chosen, c)

GreedySelection(ranked, cap) ==
    LET chosen[n \in 0..Len(ranked)] ==
            IF n = 0 THEN <<>> ELSE SelectionPass(chosen[n - 1], ranked[n], cap)
    IN chosen[Len(ranked)]

ChosenCap == 8

RelaxedCap == 3

\* chosen.filter(c => c.magnitude >= maxMag * 0.35), maxMag = chosen[0].magnitude
RelativeThreshold(chosen) ==
    IF chosen = <<>> THEN <<>>
    ELSE FilterIn(chosen, {c \in Range(chosen) : c.magnitude * 100 >= chosen[1].magnitude * 35})

\* The strict pass: greedy harmonic rejection, then the relative threshold.
StrictPass(ranked) == RelativeThreshold(GreedySelection(ranked, ChosenCap))

KeepStrict(relaxed, filtered) == filtered

\* if (relaxed.length >= filtered.length) filtered = relaxed
PreferRelaxed(relaxed, filtered) ==
    IF Len(relaxed) >= Len(filtered) THEN relaxed ELSE filtered

MinFundamentals == 3

\* if (filtered.length < 3) { ... }
Relaxation(ranked, filtered) ==
    IF Len(filtered) < MinFundamentals
    THEN PreferRelaxed(GreedySelection(ranked, RelaxedCap), filtered)
    ELSE filtered

SelectFundamentals(ranked) == Relaxation(ranked, StrictPass(ranked))

\* filtered.map(c => c.frequency)
FrequenciesOf(cs) == [i \in DOMAIN cs |-> cs[i].frequency]


(***************************************************************************)
(* SpecGoertzel: one call of extractFrequenciesFromAudioData, for scores   *)
(* that are zero except on a few sample notes, or on a dense row of notes  *)
(* that gives more than 8 local maxima.                                    *)
(***************************************************************************)
MaxActive == 3

SampleNotes == {40, 41, 46, 47, 52, 59, 64, 76}

ScoreLevels == {7, 20, 25, 32}

DenseNotes == {40, 42, 44, 46, 48, 50, 53, 55, 57}

DenseLevels == {10, 20}

OnGrid(f) == [midi \in MinMidi..MaxMidi |-> IF midi \in DOMAIN f THEN f[midi] ELSE 0]

SparseScores ==
    {OnGrid(f) : f \in UNION {[S -> ScoreLevels] :
                                 S \in {T \in SUBSET SampleNotes : Cardinality(T) <= MaxActive}}}

DenseScores == {OnGrid(f) : f \in [DenseNotes -> DenseLevels]}

InitGoertzel ==
    /\ phase = "ready"
    /\ scores \in SparseScores \cup DenseScores
    /\ mags = <<>>
    /\ extracted = <<>>
    /\ NoConfidenceCall /\ NoChordCall /\ NoFilterCall /\ NoNotesCall /\ NoPeaksCall /\ NoBufferCall
    /\ NoBlobCall
    /\ NoLaterCall

ExtractFrequenciesFromAudioData ==
    /\ phase = "ready"
    /\ mags' = WeightedMags(scores)
    /\ extracted' = FrequenciesOf(SelectFundamentals(RankedMaxima(WeightedMags(scores))))
    /\ phase' = "extracted"
    /\ UNCHANGED <<detectedNotes, chordNotes, confidence, notes, chords, analysis, peaks,
                   options, fundamentals, scores, frequencies, pitchClasses,
                   frequency, noteInfo,
                   frequencyData, binning, peakOptions, threshold, foundPeaks, dominant,
                   channelData, windows,
                   isAnalyzing, analyser, microphone, dataArray, audioBlob, promise, laterVars>>

NextGoertzel == ExtractFrequenciesFromAudioData

SpecGoertzel == InitGoertzel /\ [][NextGoertzel]_vars

(***************************************************************************)
(* Claims about the Goertzel extractor.                                    *)
(***************************************************************************)
\* The result of the strict pass on the magnitudes of the call.
StrictFrequencies == FrequenciesOf(StrictPass(RankedMaxima(mags)))

RelaxedCase == phase = "extracted" /\ Len(StrictFrequencies) < 3

\* The grid note of a returned frequency.
MidiOfFrequency(f) == CHOOSE midi \in 40..76 : GridFrequency[midi] = f

\* The weighted score of the grid note is strictly above both neighbours' (a
\* neighbour outside 40..76 counts as minus infinity).
LocalMaximumAt(midi) ==
    /\ (midi = 40 \/ mags[midi] > mags[midi - 1])
    /\ (midi = 76 \/ mags[midi] > mags[midi + 1])

\* Grid note m1 stands before m2 in the ranked list: higher score, or the same
\* score and the lower note.
RanksBefore(m1, m2) == mags[m1] > mags[m2] \/ (mags[m1] = mags[m2] /\ m1 < m2)

\* C8: when the strict pass leaves fewer than 3 fundamentals the call returns
\* at most 3 frequencies, none of them within 30 cents of a multiple 2..6 of
\* any other returned frequency, and not fewer than the strict pass gave.
C8_RelaxedMutuallyNonHarmonic ==
    RelaxedCase =>
        /\ Len(extracted) <= 3
        /\ \A i, j \in DOMAIN extracted : i # j => ~isHarmonic(extracted[j], extracted[i])
        /\ Len(extracted) >= Len(StrictFrequencies)

\* C8 (amended): when the strict pass leaves fewer than 3 fundamentals the
\* call returns, in ranked order, the first (at most 3) local maxima that are
\* not within 30 cents of a multiple 2..6 of a returned frequency ranked
\* before them, and not fewer than the strict pass gave.
C8_RelaxedGreedyInRankOrder ==
    RelaxedCase =>
        /\ Len(extracted) <= 3
        /\ Len(extracted) >= Len(StrictFrequencies)
        /\ \A i \in DOMAIN extracted :
               \E midi \in 40..76 : extracted[i] = GridFrequency[midi] /\ LocalMaximumAt(midi)
        /\ \A i, j \in DOMAIN extracted :
               i < j => /\ RanksBefore(MidiOfFrequency(extracted[i]), MidiOfFrequency(extracted[j]))
                        /\ ~isHarmonic(extracted[i], extracted[j])
        /\ \A midi \in 40..76 :
               (LocalMaximumAt(midi) /\ ~Includes(extracted, GridFrequency[midi]))
                   => \/ \E i \in DOMAIN extracted :
                             /\ RanksBefore(MidiOfFrequency(extracted[i]), midi)
                             /\ isHarmonic(extracted[i], GridFrequency[midi])
                      \/ /\ Len(extracted) = 3
                         /\ RanksBefore(MidiOfFrequency(extracted[3]), midi)

C8_RelaxedLongerWithMultipleAbove ==
    /\ RelaxedCase
    /\ Len(extracted) > Len(StrictFrequencies)
    /\ \E i, j \in DOMAIN extracted : i < j /\ isHarmonic(extracted[j], extracted[i])

\* C9: every returned frequency is the frequency of a grid note 40..76 whose
\* weighted score is a local maximum; no two returned frequencies are adjacent
\* semitones and at most 8 are returned.
C9_ReturnedAreLocalMaxima ==
    phase = "extracted" =>
        /\ \A i \in DOMAIN extracted :
               \E midi \in 40..76 : extracted[i] = GridFrequency[midi] /\ LocalMaximumAt(midi)
        /\ \A i, j \in DOMAIN extracted :
               MidiOfFrequency(extracted[i]) - MidiOfFrequency(extracted[j]) \notin {1, -1}
        /\ Len(extracted) <= 8

C9_EightReturnedFromGridEdge ==
    /\ phase = "extracted"
    /\ Len(extracted) = 8
    /\ Includes(extracted, GridFrequency[40])
    /\ \E midi \in 40..76 : LocalMaximumAt(midi) /\ ~Includes(extracted, GridFrequency[midi])


(***************************************************************************)
(* note-conversion.ts: frequenciesToNotes. A frequency is a number: a      *)
(* finite one in tenths of a Hz, NaN or Infinity.                          *)
(***************************************************************************)
Hz(tenths) == [finite |-> TRUE, tenths |-> tenths]

NaN == [finite |-> FALSE, tenths |-> 0]

PosInfinity == [finite |-> FALSE, tenths |-> 1]

NegInfinity == [finite |-> FALSE, tenths |-> -1]

\* 440 * 2^((m - 69.5) / 12) for m = 116..127, in tenths of a Hz, rounded up:
\* the least frequencies that Math.round(12 * Math.log2(f / 440) + 69) takes
\* to m.
MidiEdges == <<64558, 68396, 72463, 76772, 81337, 86174,
               91298, 96727, 102478, 108572, 115028, 121868>>

\* The least frequency taken to 128.
TopEdge == 129115

\* How often f is doubled to reach the octave of MIDI 116..127.
Doublings(f) ==
    CHOOSE s \in 0..17 : f * 2^s >= MidiEdges[1] /\ (s = 0 \/ f * 2^(s - 1) < MidiEdges[1])

MidiInTopOctave(f) == 115 + Cardinality({i \in DOMAIN MidiEdges : f >= MidiEdges[i]})

\* Math.round(12 * Math.log2(freq / 440) + 69) for a finite freq > 0; 128
\* stands for every number above 127.
RoundedMidi(f) ==
    IF f >= TopEdge THEN 128
    ELSE MidiInTopOctave(f * 2^Doublings(f)) - 12 * Doublings(f)

\* midiNote >= 0 && midiNote <= 127; the rounded number of NaN, of a negative
\* frequency (NaN), of 0 (-Infinity) and of Infinity fails both comparisons.
InMidiRange(freq) ==
    /\ freq.finite
    /\ freq.tenths > 0
    /\ RoundedMidi(freq.tenths) >= 0
    /\ RoundedMidi(freq.tenths) <= 127

FlatNames == <<"C", "Db", "D", "Eb", "E", "F", "Gb", "G", "Ab", "A", "Bb", "B">>

\* Midi.midiToNoteName(midi): flat spelling and octave, as in C4 for 60.
MidiToNoteName(midi) == [pc |-> FlatNames[(midi % 12) + 1], oct |-> (midi \div 12) - 1]

\* Note.get(noteName).pc of the note name of a frequency in range
PitchClassOfFrequency(freq) == MidiToNoteName(RoundedMidi(freq.tenths)).pc

\* The notes the forEach pushes.
PushedNotes(fs) ==
    [i \in DOMAIN fs |-> PitchClassOfFrequency(fs[i])]

AllNotes(ns) == ns

\* const uniqueNotes = [...new Set(notes)]
UniqueNotes(ns) == Unique(ns)

frequenciesToNotes(fs) ==
    UniqueNotes(PushedNotes(FilterIn(fs, {f \in Range(fs) : InMidiRange(f)})))

\* A number that Math.round(12 * Math.log2(frequency / 440) + 69) returns:
\* an integer n, NaN, Infinity or -Infinity.
MidiNumber(kind, n) == [kind |-> kind, n |-> n]

\* frequencyToMidi: Math.log2 of NaN and of a negative number is NaN, of 0
\* is -Infinity, of Infinity is Infinity.
frequencyToMidi(freq) ==
    IF freq = NaN \/ freq = NegInfinity \/ (freq.finite /\ freq.tenths < 0)
    THEN MidiNumber("NaN", 0)
    ELSE IF freq = PosInfinity THEN MidiNumber("Infinity", 0)
    ELSE IF freq.tenths = 0 THEN MidiNumber("-Infinity", 0)
    ELSE MidiNumber("integer", RoundedMidi(freq.tenths))

\* midiNote < k and midiNote > k: every comparison with NaN is false.
LessThan(midiNote, k) ==
    \/ midiNote.kind = "-Infinity"
    \/ midiNote.kind = "integer" /\ midiNote.n < k

GreaterThan(midiNote, k) ==
    \/ midiNote.kind = "Infinity"
    \/ midiNote.kind = "integer" /\ midiNote.n > k

\* The empty string that Midi.midiToNoteName returns.
NoName == [pc |-> "", oct |-> 0]

NameOfEveryNumber(midiNote) ==
    MidiToNoteName(IF midiNote.kind = "integer" THEN midiNote.n ELSE 0)

\* Midi.midiToNoteName(midi) of any number: "" for NaN and the infinities.
NoteNameOfNumber(midiNote) ==
    IF midiNote.kind # "integer" THEN NoName ELSE MidiToNoteName(midiNote.n)

NoteInfoOf(freq, midiNote, noteName) ==
    IF LessThan(midiNote, 0) \/ GreaterThan(midiNote, 127) THEN Null
    ELSE IF noteName = NoName THEN Null
    ELSE [name |-> noteName, pc |-> noteName.pc, oct |-> noteName.oct,
          midi |-> midiNote.n, freq |-> freq]

frequencyToNoteInfo(freq) ==
    NoteInfoOf(freq, frequencyToMidi(freq), NoteNameOfNumber(frequencyToMidi(freq)))

(***************************************************************************)
(* SpecNotes: one call of frequenciesToNotes(frequencies), on short lists  *)
(* over a few frequencies and on chromatic runs of more than 12 notes, or  *)
(* one call of frequencyToNoteInfo(frequency).                             *)
(***************************************************************************)
MaxFrequencies == 3

MaxRun == 14

FrequencyValues ==
    {Hz(2616), Hz(2692), Hz(2693), Hz(2772), Hz(3296), Hz(3920), Hz(5233),
     Hz(79), Hz(80), Hz(129114), Hz(129115), Hz(0), Hz(-4400), NaN, PosInfinity,
     NegInfinity}

ChromaticRuns == {[i \in 1..n |-> Hz(GridFrequency[59 + i])] : n \in 0..MaxRun}

InitNotes ==
    /\ phase = "ready"
    /\ frequencies \in SeqsUpTo(FrequencyValues, MaxFrequencies) \cup ChromaticRuns
    /\ pitchClasses = <<>>
    /\ frequency = Null
    /\ noteInfo = Null
    /\ NoConfidenceCall /\ NoChordCall /\ NoFilterCall /\ NoExtractCall /\ NoPeaksCall /\ NoBufferCall
    /\ NoBlobCall
    /\ NoLaterCall

FrequenciesToNotes ==
    /\ phase = "ready"
    /\ pitchClasses' = frequenciesToNotes(frequencies)
    /\ phase' = "converted"
    /\ UNCHANGED <<detectedNotes, chordNotes, confidence, notes, chords, analysis, peaks,
                   options, fundamentals, scores, mags, extracted, frequencies,
                   frequency, noteInfo,
                   frequencyData, binning, peakOptions, threshold, foundPeaks, dominant,
                   channelData, windows,
                   isAnalyzing, analyser, microphone, dataArray, audioBlob, promise, laterVars>>

FrequencyToNoteInfo ==
    /\ phase = "ready"
    /\ \E freq \in FrequencyValues :
           /\ frequency' = freq
           /\ noteInfo' = frequencyToNoteInfo(freq)
    /\ phase' = "informed"
    /\ UNCHANGED <<detectedNotes, chordNotes, confidence, notes, chords, analysis, peaks,
                   options, fundamentals, scores, mags, extracted, frequencies, pitchClasses,
                   frequencyData, binning, peakOptions, threshold, foundPeaks, dominant,
                   channelData, windows,
                   isAnalyzing, analyser, microphone, dataArray, audioBlob, promise, laterVars>>

NextNotes == FrequenciesToNotes \/ FrequencyToNoteInfo

SpecNotes == InitNotes /\ [][NextNotes]_vars

(***************************************************************************)
(* Claims about frequenciesToNotes.                                        *)
(***************************************************************************)
\* The positions of the input frequencies whose rounded MIDI number is in
\* 0..127 and has the given pitch class.
PositionsOf(pc) ==
    {k \in DOMAIN frequencies :
        InMidiRange(frequencies[k]) /\ PitchClassOfFrequency(frequencies[k]) = pc}

FirstPositionOf(pc) == CHOOSE k \in PositionsOf(pc) : \A l \in PositionsOf(pc) : k <= l

\* C10: the returned list has no duplicate pitch classes, is in order of first
\* occurrence, holds only pitch classes of inputs whose MIDI number is in
\* 0..127, and has at most min(|input|, 12) elements.
C10_DistinctPitchClassesInOrder ==
    phase = "converted" =>
        /\ \A i, j \in DOMAIN pitchClasses :
               i # j => Chroma(pitchClasses[i]) # Chroma(pitchClasses[j])
        /\ \A i \in DOMAIN pitchClasses : PositionsOf(pitchClasses[i]) # {}
        /\ \A i, j \in DOMAIN pitchClasses :
               i < j => FirstPositionOf(pitchClasses[i]) < FirstPositionOf(pitchClasses[j])
        /\ Len(pitchClasses) <= Len(frequencies)
        /\ Len(pitchClasses) <= 12

C10_TwelveFromLongerRun ==
    /\ phase = "converted"
    /\ Len(frequencies) > 12
    /\ Len(pitchClasses) = 12

\* The frequency is a finite positive number whose rounded MIDI number is in
\* 0..127.
Convertible(freq) ==
    /\ freq.finite
    /\ freq.tenths > 0
    /\ RoundedMidi(freq.tenths) \in 0..127

\* C11: a NaN, infinite, zero or negative frequency, and one whose rounded MIDI
\* number is outside 0..127, adds nothing to the list frequenciesToNotes
\* returns and makes frequencyToNoteInfo return null; the list holds pitch-class
\* names only, and the other frequencies of the input are converted.
C11_BadFrequenciesDropped ==
    /\ phase = "converted" =>
           /\ \A i \in DOMAIN pitchClasses : pitchClasses[i] \in Range(FlatNames)
           /\ Range(pitchClasses) =
                  {PitchClassOfFrequency(f) : f \in {g \in Range(frequencies) : Convertible(g)}}
    /\ phase = "informed" =>
           /\ ~Convertible(frequency) => noteInfo = Null
           /\ Convertible(frequency) =>
                  /\ noteInfo # Null
                  /\ noteInfo.pc = PitchClassOfFrequency(frequency)
                  /\ noteInfo.freq = frequency

C11_ValidKeptAmongBad ==
    /\ phase = "converted"
    /\ NaN \in Range(frequencies)
    /\ Hz(129115) \in Range(frequencies)
    /\ pitchClasses = <<"C">>

(***************************************************************************)
(* frequency-utils.ts: findFrequencyPeaks, calculateAdaptiveThreshold and  *)
(* extractDominantFrequenciesFromFFT; audio-analyzer.ts:                   *)
(* extractDominantFrequencies. frequencyData[i] of the code is data[i + 1] *)
(* here; amplitudes are bytes, thresholds are in hundredths (ratios 0.25   *)
(* and 0.3 are 25 and 30), frequencies in tenths of a Hz.                  *)
(***************************************************************************)
Larger(a, b) == IF a >= b THEN a ELSE b

\* Math.max(...frequencyData) of a non-empty array
ArrayMax(data) == CHOOSE a \in Range(data) : \A b \in Range(data) : b <= a

\* Math.max(minThreshold, maxAmplitude * thresholdRatio); Math.max() of no
\* arguments is -Infinity, and so is its product with the ratio.
calculateAdaptiveThreshold(data, opts) ==
    IF data = <<>> THEN opts.minThreshold * 100
    ELSE Larger(opts.minThreshold * 100, ArrayMax(data) * opts.thresholdRatio)

\* const frequency = i * binSize, binSize = sampleRate / fftSize
BinFrequency(i, bins) == (i * bins.sampleRate * 10) \div bins.fftSize

Prominence(data, i) == data[i + 1] - Larger(data[i], data[i + 2])

\* The conditions under which the loop pushes bin i.
IsPeakBin(data, i, bins, opts) ==
    /\ BinFrequency(i, bins) >= opts.minFrequency * 10
    /\ BinFrequency(i, bins) <= opts.maxFrequency * 10
    /\ data[i + 1] * 100 > opts.minAmplitude
    /\ data[i + 1] >= data[i]
    /\ data[i + 1] >= data[i + 2]
    /\ Prominence(data, i) >= opts.minProminence

\* for (let i = 1; i < frequencyData.length - 1; i++)
PeakBins(data, bins, opts) == {i \in 1..(Len(data) - 2) : IsPeakBin(data, i, bins, opts)}

PeakAt(data, i, bins) ==
    [frequency |-> BinFrequency(i, bins), amplitude |-> data[i + 1],
     prominence |-> Prominence(data, i)]

\* The peaks in the order the loop pushes them.
PushedPeaks(data, bs, bins) ==
    [j \in 1..Cardinality(bs) |->
        PeakAt(data, CHOOSE i \in bs : Cardinality({k \in bs : k <= i}) = j, bins)]

InBinOrder(ps) == ps

\* peaks.sort((a, b) => b.amplitude - a.amplitude): descending, equal
\* amplitudes keep their order.
SortedByAmplitude(ps) ==
    [r \in 1..Len(ps) |->
        ps[CHOOSE i \in DOMAIN ps :
               Cardinality({j \in DOMAIN ps :
                               \/ ps[j].amplitude > ps[i].amplitude
                               \/ (ps[j].amplitude = ps[i].amplitude /\ j < i)}) = r - 1]]

findFrequencyPeaks(data, bins, opts) ==
    SortedByAmplitude(PushedPeaks(data, PeakBins(data, bins, opts), bins))

DefaultPeakOptions ==
    [minAmplitude |-> 3000, minProminence |-> 5, minFrequency |-> 80, maxFrequency |-> 2000]

\* { minThreshold: 30, thresholdRatio: 0.25 }
AnalyzerThresholdOptions == [minThreshold |-> 30, thresholdRatio |-> 25]

\* The options extractDominantFrequencies passes to findFrequencyPeaks.
AnalyzerPeakOptions(data) ==
    [minAmplitude |-> calculateAdaptiveThreshold(data, AnalyzerThresholdOptions),
     minProminence |-> 5, minFrequency |-> 80, maxFrequency |-> 2000]

\* fundamentals.map(p => p.frequency), fundamentals given as positions in ps
FrequenciesAt(ps, positions) == [j \in DOMAIN positions |-> ps[positions[j]].frequency]

DominantCap == 8

\* AudioAnalyzer.extractDominantFrequencies, from the peaks on
DominantOfPeaks(ps) ==
    Slice(FrequenciesAt(ps, filterHarmonicPeaks(ps, [maxMultiple |-> 6, toleranceCents |-> 35])),
          DominantCap)

extractDominantFrequencies(data, bins) ==
    DominantOfPeaks(findFrequencyPeaks(data, bins, AnalyzerPeakOptions(data)))

\* The threshold and the conditions of extractDominantFrequenciesFromFFT:
\* Math.max(30, maxAmplitude * 0.3), 80..2000 Hz, prominence >= 5.
FFTPeakOptions(data) ==
    [minAmplitude |-> calculateAdaptiveThreshold(data, [minThreshold |-> 30, thresholdRatio |-> 30]),
     minProminence |-> 5, minFrequency |-> 80, maxFrequency |-> 2000]

FundamentalsOfFFT(ps) ==
    FrequenciesAt(ps, filterHarmonicPeaks(ps, [maxMultiple |-> 5, toleranceCents |-> 35]))

extractDominantFrequenciesFromFFT(data, bins) ==
    FundamentalsOfFFT(findFrequencyPeaks(data, bins, FFTPeakOptions(data)))

(***************************************************************************)
(* wav-decoder.d.ts: extractFrequenciesFromAudioData (Goertzel variant),   *)
(* from the sample buffer to the scores. A Float32Array element is NaN or  *)
(* a number, of which the sign is kept: the Goertzel sums of a window with *)
(* a non-zero sample are not computed, they are any spectrum of a set.     *)
(* channelData[i] of the code is data[i + 1] here.                         *)
(***************************************************************************)
Sample(sign) == [nan |-> FALSE, sign |-> sign]

\* A Float32Array with the given elements.
Float32Array(samples) == [samples |-> samples]

NaNSample == [nan |-> TRUE, sign |-> 0]

WindowSize == 8192

WindowsCount == 4

Smaller(a, b) == IF a <= b THEN a ELSE b

\* Math.max(0, Math.floor((channelData.length - windowSize) * t)) for
\* t = w / (windowsCount - 1)
StartIndex(length, size, w) == Larger(0, ((length - size) * w) \div (WindowsCount - 1))

Unwindowed(sample, i, length) == sample

\* 0.5 * (1 - Math.cos((2 * Math.PI * i) / (segment.length - 1))): NaN for a
\* segment of one sample (0 / 0), 0 at both ends, positive in between.
HannWindowed(sample, i, length) ==
    IF length = 1 THEN NaNSample
    ELSE IF i = 0 \/ i = length - 1 \/ sample.nan THEN Sample(0)
    ELSE sample

\* channelData.slice(startIndex, startIndex + windowSize), then the loop
\* segment[i] = (segment[i] || 0) * win
WindowedSegment(data, start, size) ==
    [k \in 1..size |-> HannWindowed(data[start + k], k - 1, size)]

HannWindows(data) ==
    [w \in 1..WindowsCount |->
        WindowedSegment(data, StartIndex(Len(data), Smaller(WindowSize, Len(data)), w - 1),
                        Smaller(WindowSize, Len(data)))]

\* The first segment is a view of the buffer: its loop writes into channelData.
WrittenThrough(data, segments) ==
    [i \in DOMAIN data |-> IF i \in DOMAIN segments[1] THEN segments[1][i] ELSE data[i]]

\* The buffer after the loop over the windows: slice copies, the writes of
\* the Hann loop go to the copies.
BufferAfterWindowing(data, segments) == data

\* samples[i] || 0 is 0 for every sample of the segment
Silent(segment) == \A i \in DOMAIN segment : segment[i].nan \/ segment[i].sign = 0

ZeroScores == [midi \in MinMidi..MaxMidi |-> 0]

AnySpectrum(segments, spectra) == spectra

\* The scores of the grid notes: goertzelMagnitude is 0 on a segment without
\* a non-zero sample, so the sum over silent windows is 0.
GoertzelScores(segments, spectra) ==
    IF \A w \in DOMAIN segments : Silent(segments[w]) THEN {ZeroScores} ELSE spectra

(***************************************************************************)
(* wav-decoder.d.ts: extractFrequenciesFromAudioData, the earlier          *)
(* zero-crossing variant (lines 68-83). Samples are -1, 0 or 1; the        *)
(* estimates of a sub-segment with a sample above the threshold are not    *)
(* computed, they are any list of a set.                                   *)
(***************************************************************************)
SampleSizeCap == 4096

SegmentSize == 512

PeakWindow == 32

\* for (let i = 0; i < segment.length - segmentSize; i += segmentSize), the
\* segment being channelData.slice(0, Math.min(4096, channelData.length))
SubSegmentStarts(data) ==
    {i \in 0..(Smaller(SampleSizeCap, Len(data)) - SegmentSize - 1) : i % SegmentSize = 0}

\* findSimplePeaks: some sample of the sub-segment, 32 samples from both of
\* its ends, has Math.abs(data[i] || 0) > 0.01.
HasLoudSample(data, start) ==
    \E i \in PeakWindow..(SegmentSize - PeakWindow - 1) :
        ~data[start + i + 1].nan /\ data[start + i + 1].sign # 0

EstimateCap == 8

\* [...new Set(frequencies)].slice(0, 8), for the estimates pushed by the
\* sub-segments.
ZeroCrossingResults(data, estimates) ==
    IF \E start \in SubSegmentStarts(data) : HasLoudSample(data, start)
    THEN {Slice(Unique(fs), EstimateCap) : fs \in estimates}
    ELSE {<<>>}

(***************************************************************************)
(* SpecPipeline: one analysis, call by call: the frequencies of a sample   *)
(* buffer (extractFrequenciesFromAudioData, either variant) or of an FFT   *)
(* magnitude array                                                         *)
(* (extractDominantFrequenciesFromFFT, AudioAnalyzer's                     *)
(* extractDominantFrequencies), then frequenciesToNotes, then              *)
(* detectChordsFromNotes.                                                  *)
(***************************************************************************)
MaxSamples == 4

SampleSigns == {-1, 0, 1}

ShortBuffers == {Float32Array(s) : s \in SeqsUpTo({Sample(v) : v \in SampleSigns}, MaxSamples)}

LongLengths ==
    {SegmentSize - 1, SegmentSize, SegmentSize + 1, WindowSize - 1, WindowSize, WindowSize + 1}

\* Buffers of about one window: silence, and a square wave.
LongBuffers ==
    {Float32Array([i \in 1..n |-> Sample(0)]) : n \in LongLengths}
        \cup {Float32Array([i \in 1..n |-> Sample(IF (i \div 64) % 2 = 0 THEN 1 ELSE -1)]) :
                  n \in LongLengths}

Buffers == {Null} \cup ShortBuffers \cup LongBuffers

\* Spectra of a buffer with a tone or a chord in it: one grid note, the notes
\* of A7 (A2 C#3 E3 G3), of C major (C3 E3 G3) and of C major with F#4.
ToneNotes == {40, 45, 57, 69, 76}

BufferSpectra ==
    {OnGrid([n \in {t} |-> 20]) : t \in ToneNotes}
        \cup {OnGrid([n \in {45, 49, 52, 55} |-> IF n = 45 THEN 32 ELSE 20]),
              OnGrid([n \in {48, 52, 55} |-> 20]),
              OnGrid([n \in {48, 52, 55, 66} |-> 20])}

\* Lists of zero-crossing estimates, in tenths of a Hz.
CrossingEstimates == {<<>>, <<3445>>, <<3445, 1100, 3445>>}

MaxBins == 5

BinAmplitudes == {0, 36, 255}

\* Bins of 40 Hz, 250 Hz and 1000 Hz.
Binnings ==
    {[sampleRate |-> 1280, fftSize |-> 32], [sampleRate |-> 8000, fftSize |-> 32],
     [sampleRate |-> 32000, fftSize |-> 32]}

InitPipeline ==
    /\ phase = "ready"
    /\ \/ /\ channelData \in Buffers
          /\ frequencyData = <<>>
          /\ binning = [sampleRate |-> 44100, fftSize |-> 2048]
       \/ /\ channelData = Null
          /\ frequencyData \in SeqsUpTo(BinAmplitudes, MaxBins)
          /\ binning \in Binnings
    /\ windows = <<>>
    /\ peakOptions = DefaultPeakOptions
    /\ threshold = 0
    /\ foundPeaks = <<>>
    /\ dominant = <<>>
    /\ frequencies = <<>>
    /\ pitchClasses = <<>>
    /\ frequency = Null
    /\ noteInfo = Null
    /\ NoConfidenceCall /\ NoChordCall /\ NoFilterCall /\ NoExtractCall /\ NoBlobCall
    /\ NoLaterCall

\* if (!channelData || channelData.length === 0) return []
EmptyBuffer(data) == data = Null \/ data.samples = <<>>

ExtractFrequenciesFromBuffer ==
    /\ phase = "ready"
    /\ IF EmptyBuffer(channelData)
       THEN /\ extracted' = <<>>
            /\ UNCHANGED <<channelData, windows, scores, mags>>
       ELSE /\ windows' = HannWindows(channelData.samples)
            /\ channelData' = Float32Array(BufferAfterWindowing(channelData.samples,
                                                                HannWindows(channelData.samples)))
            /\ \E sc \in GoertzelScores(HannWindows(channelData.samples), BufferSpectra) :
                   /\ scores' = sc
                   /\ mags' = WeightedMags(sc)
                   /\ extracted' = FrequenciesOf(SelectFundamentals(RankedMaxima(WeightedMags(sc))))
    /\ phase' = "extracted"
    /\ UNCHANGED <<detectedNotes, chordNotes, confidence, notes, chords, analysis, peaks,
                   options, fundamentals, frequencies, pitchClasses, frequency, noteInfo,
                   frequencyData, binning, peakOptions, threshold, foundPeaks, dominant,
                   isAnalyzing, analyser, microphone, dataArray, audioBlob, promise, laterVars>>

\* The zero-crossing variant; channelData.length of null or undefined throws
\* a TypeError.
ExtractFrequenciesByZeroCrossings ==
    /\ phase = "ready"
    /\ IF channelData = Null
       THEN /\ phase' = "thrown"
            /\ UNCHANGED extracted
       ELSE /\ phase' = "estimated"
            /\ \E fs \in ZeroCrossingResults(channelData.samples, CrossingEstimates) :
                   extracted' = fs
    /\ UNCHANGED <<detectedNotes, chordNotes, confidence, notes, chords, analysis, peaks,
                   options, fundamentals, scores, mags, frequencies, pitchClasses, frequency,
                   noteInfo, frequencyData, binning, peakOptions, threshold, foundPeaks,
                   dominant, channelData, windows,
                   isAnalyzing, analyser, microphone, dataArray, audioBlob, promise, laterVars>>

ExtractDominantFrequenciesFromFFT ==
    /\ phase = "ready"
    /\ dominant' = extractDominantFrequenciesFromFFT(frequencyData, binning)
    /\ phase' = "dominant"
    /\ UNCHANGED <<detectedNotes, chordNotes, confidence, notes, chords, analysis, peaks,
                   options, fundamentals, scores, mags, extracted, frequencies, pitchClasses,
                   frequency, noteInfo, frequencyData, binning, peakOptions, threshold,
                   foundPeaks, channelData, windows,
                   isAnalyzing, analyser, microphone, dataArray, audioBlob, promise, laterVars>>

\* AudioAnalyzer.extractDominantFrequencies(dataArray)
ExtractDominantFrequencies ==
    /\ phase = "ready"
    /\ threshold' = calculateAdaptiveThreshold(frequencyData, AnalyzerThresholdOptions)
    /\ peakOptions' = AnalyzerPeakOptions(frequencyData)
    /\ foundPeaks' = findFrequencyPeaks(frequencyData, binning, AnalyzerPeakOptions(frequencyData))
    /\ dominant' = extractDominantFrequencies(frequencyData, binning)
    /\ phase' = "dominant"
    /\ UNCHANGED <<detectedNotes, chordNotes, confidence, notes, chords, analysis, peaks,
                   options, fundamentals, scores, mags, extracted, frequencies, pitchClasses,
                   frequency, noteInfo, frequencyData, binning, channelData, windows,
                   isAnalyzing, analyser, microphone, dataArray, audioBlob, promise, laterVars>>

\* The numbers handed to frequenciesToNotes.
AsFrequencies(fs) == [i \in DOMAIN fs |-> Hz(fs[i])]

NotesOfFrequencies ==
    /\ phase \in {"extracted", "estimated", "dominant"}
    /\ frequencies' = AsFrequencies(IF phase = "dominant" THEN dominant ELSE extracted)
    /\ pitchClasses' =
           frequenciesToNotes(AsFrequencies(IF phase = "dominant" THEN dominant ELSE extracted))
    /\ phase' = "converted"
    /\ UNCHANGED <<detectedNotes, chordNotes, confidence, notes, chords, analysis, peaks,
                   options, fundamentals, scores, mags, extracted, frequency, noteInfo,
                   frequencyData, binning, peakOptions, threshold, foundPeaks, dominant,
                   channelData, windows,
                   isAnalyzing, analyser, microphone, dataArray, audioBlob, promise, laterVars>>

ChordsOfNotes ==
    /\ phase = "converted"
    /\ notes' = pitchClasses
    /\ chords' = detectChordsFromNotes(pitchClasses)
    /\ phase' = "detected"
    /\ UNCHANGED <<detectedNotes, chordNotes, confidence, analysis, peaks, options,
                   fundamentals, scores, mags, extracted, frequencies, pitchClasses,
                   frequency, noteInfo, frequencyData, binning, peakOptions, threshold,
                   foundPeaks, dominant, channelData, windows,
                   isAnalyzing, analyser, microphone, dataArray, audioBlob, promise, laterVars>>

NextPipeline ==
    \/ ExtractFrequenciesFromBuffer
    \/ ExtractFrequenciesByZeroCrossings
    \/ ExtractDominantFrequenciesFromFFT
    \/ ExtractDominantFrequencies
    \/ NotesOfFrequencies
    \/ ChordsOfNotes

SpecPipeline == InitPipeline /\ [][NextPipeline]_vars

(***************************************************************************)
(* Claims about the pipeline on silence and on short buffers.              *)
(***************************************************************************)
\* The call was given a buffer and every sample of it is 0.
SilentBuffer ==
    /\ channelData # Null
    /\ \A i \in DOMAIN channelData.samples : channelData.samples[i] = Sample(0)

\* The call was given an FFT magnitude array and every bin of it is 0.
SilentSpectrum ==
    /\ channelData = Null
    /\ \A i \in DOMAIN frequencyData : frequencyData[i] = 0

\* C12: for an all-zero sample buffer of any length, and for an all-zero FFT
\* magnitude array, every stage returns the empty list: no frequencies, no
\* pitch classes from no frequencies, no chord candidates from no notes.
C12_SilenceYieldsNothing ==
    /\ (phase \in {"extracted", "estimated"} /\ SilentBuffer) => extracted = <<>>
    /\ (phase = "dominant" /\ SilentSpectrum) => dominant = <<>>
    /\ (phase = "converted" /\ frequencies = <<>>) => pitchClasses = <<>>
    /\ (phase = "detected" /\ notes = <<>>) => chords = <<>>
    /\ (phase \in {"converted", "detected"} /\ (SilentBuffer \/ SilentSpectrum)) =>
           /\ frequencies = <<>>
           /\ pitchClasses = <<>>
           /\ chords = <<>>

C12_SilentWindowsAnalysed ==
    /\ phase = "detected"
    /\ SilentBuffer
    /\ Len(channelData.samples) = WindowSize + 1
    /\ Len(windows) = WindowsCount
    /\ chords = <<>>

MaxSpectrum == 5

SpectrumAmplitudes == {0, 31, 36, 140}

CustomPeakOptions ==
    [minAmplitude |-> 3100, minProminence |-> 0, minFrequency |-> 100, maxFrequency |-> 1000]

InitPeaks ==
    /\ phase = "ready"
    /\ frequencyData \in SeqsUpTo(SpectrumAmplitudes, MaxSpectrum)
    /\ binning \in Binnings
    /\ peakOptions \in {DefaultPeakOptions, CustomPeakOptions}
    /\ threshold = 0
    /\ foundPeaks = <<>>
    /\ dominant = <<>>
    /\ NoConfidenceCall /\ NoChordCall /\ NoFilterCall /\ NoExtractCall /\ NoNotesCall
    /\ NoBufferCall /\ NoBlobCall
    /\ NoLaterCall

FindFrequencyPeaks ==
    /\ phase = "ready"
    /\ foundPeaks' = findFrequencyPeaks(frequencyData, binning, peakOptions)
    /\ phase' = "found"
    /\ UNCHANGED <<detectedNotes, chordNotes, confidence, notes, chords, analysis, peaks,
                   options, fundamentals, scores, mags, extracted, frequencies, pitchClasses,
                   frequency, noteInfo, frequencyData, binning, peakOptions, threshold,
                   dominant, channelData, windows,
                   isAnalyzing, analyser, microphone, dataArray, audioBlob, promise, laterVars>>

CalculateAdaptiveThreshold ==
    /\ phase = "ready"
    /\ threshold' = calculateAdaptiveThreshold(frequencyData, AnalyzerThresholdOptions)
    /\ phase' = "threshold"
    /\ UNCHANGED <<detectedNotes, chordNotes, confidence, notes, chords, analysis, peaks,
                   options, fundamentals, scores, mags, extracted, frequencies, pitchClasses,
                   frequency, noteInfo, frequencyData, binning, peakOptions, foundPeaks,
                   dominant, channelData, windows,
                   isAnalyzing, analyser, microphone, dataArray, audioBlob, promise, laterVars>>

NextPeaks == FindFrequencyPeaks \/ CalculateAdaptiveThreshold \/ ExtractDominantFrequencies

SpecPeaks == InitPeaks /\ [][NextPeaks]_vars

(***************************************************************************)
(* Claims about findFrequencyPeaks.                                        *)
(***************************************************************************)
\* Bin i of the array of the call (frequencyData[i] of the code).
Bin(i) == frequencyData[i + 1]

\* Bin i is an interior bin whose frequency i * sampleRate / fftSize is in
\* [minFrequency, maxFrequency], whose amplitude is above minAmplitude and not
\* below a neighbour's, and exceeds both neighbours' by minProminence.
QualifyingBin(i) ==
    /\ 1 <= i /\ i <= Len(frequencyData) - 2
    /\ i * binning.sampleRate >= peakOptions.minFrequency * binning.fftSize
    /\ i * binning.sampleRate <= peakOptions.maxFrequency * binning.fftSize
    /\ Bin(i) * 100 > peakOptions.minAmplitude
    /\ Bin(i) >= Bin(i - 1) /\ Bin(i) >= Bin(i + 1)
    /\ Bin(i) - Bin(i - 1) >= peakOptions.minProminence
    /\ Bin(i) - Bin(i + 1) >= peakOptions.minProminence

\* C14: findFrequencyPeaks returns exactly one peak for each qualifying bin,
\* with the bin's frequency and amplitude, sorted by amplitude descending; in
\* extractDominantFrequencies minAmplitude is max(30, 0.25 * max(data)), which
\* is 30 for empty data and never below 30.
C14_PeaksAreQualifyingBins ==
    /\ phase \in {"found", "dominant"} =>
           /\ \A i \in 0..(Len(frequencyData) - 1) :
                  Cardinality({k \in DOMAIN foundPeaks :
                                  foundPeaks[k].frequency * binning.fftSize
                                      = i * binning.sampleRate * 10})
                      = IF QualifyingBin(i) THEN 1 ELSE 0
           /\ \A k \in DOMAIN foundPeaks :
                  \E i \in 0..(Len(frequencyData) - 1) :
                      /\ foundPeaks[k].frequency * binning.fftSize = i * binning.sampleRate * 10
                      /\ foundPeaks[k].amplitude = Bin(i)
           /\ \A k, l \in DOMAIN foundPeaks :
                  k < l => foundPeaks[k].amplitude >= foundPeaks[l].amplitude
    /\ phase = "dominant" =>
           /\ peakOptions.minAmplitude = threshold
           /\ peakOptions.minProminence = 5
           /\ peakOptions.minFrequency = 80 /\ peakOptions.maxFrequency = 2000
    /\ phase \in {"threshold", "dominant"} =>
           /\ threshold >= 3000
           /\ \A i \in DOMAIN frequencyData : threshold >= 25 * frequencyData[i]
           /\ \/ threshold = 3000
              \/ \E i \in DOMAIN frequencyData : threshold = 25 * frequencyData[i]
           /\ frequencyData = <<>> => threshold = 3000

C14_TwoPeaksAboveAdaptiveThreshold ==
    /\ phase = "dominant"
    /\ threshold > 3000
    /\ Len(foundPeaks) = 2
    /\ foundPeaks[1].amplitude > foundPeaks[2].amplitude
    /\ foundPeaks[1].frequency > foundPeaks[2].frequency

(***************************************************************************)
(* Claims about the chords of exact, noisy and unmatched note sets.        *)
(***************************************************************************)
\* The notes of the call are the pitch classes of chord type k on the first
\* note, root first, one note per interval.
ExactTemplate(k) ==
    /\ Len(notes) = Len(ChordTypes[k].intervals)
    /\ \A i \in DOMAIN notes :
           /\ notes[i] \in PitchClassNames
           /\ Chroma(notes[i]) = (Chroma(notes[1]) + ChordTypes[k].intervals[i][2]) % 12

\* C15: when the pitch classes of the input are exactly the notes of a chord
\* template of three or more notes, root first, detectChordsFromNotes returns
\* one candidate: that chord, confidence 1.0, the template's root and quality.
C15_ExactTemplateScoresOne ==
    phase = "detected" =>
        \A k \in DOMAIN ChordTypes :
            (ExactTemplate(k) /\ Len(notes) >= MinChordNotes) =>
                /\ Len(chords) = 1
                /\ chords[1].chord = [tonic |-> notes[1], alias |-> ChordTypes[k].alias, bass |-> ""]
                /\ chords[1].root = notes[1]
                /\ chords[1].quality = ChordTypes[k].alias
                /\ chords[1].confidence = FOne

\* The notes of the call are the notes of chord type k on the first note, root
\* first, followed by one more pitch class that is not a note of the chord.
TemplatePlusOne(k) ==
    /\ Len(notes) = Len(ChordTypes[k].intervals) + 1
    /\ \A i \in DOMAIN notes : notes[i] \in PitchClassNames
    /\ \A i \in DOMAIN ChordTypes[k].intervals :
           Chroma(notes[i]) = (Chroma(notes[1]) + ChordTypes[k].intervals[i][2]) % 12
    /\ \A i \in DOMAIN ChordTypes[k].intervals : Chroma(notes[Len(notes)]) # Chroma(notes[i])

\* No chord is found on the whole input, nor on the input without one of its
\* notes other than the last.
OnlyTemplateMatches ==
    /\ Chord_detect(notes) = <<>>
    /\ \A i \in 1..(Len(notes) - 1) :
           Chord_detect(AtPositions(notes, DOMAIN notes \ {i})) = <<>>

\* C16: for a template's notes (three or more) plus one spurious pitch class
\* that forms no chord with them, detectChordsFromNotes returns the
\* template's chord, found on a subset, and the confidence is that of the
\* matching notes alone: 1.0, whatever the spelling of the spurious note.
C16_SpuriousNoteAddsNothing ==
    phase = "detected" =>
        \A k \in DOMAIN ChordTypes :
            (/\ TemplatePlusOne(k)
             /\ Len(notes) > MinChordNotes
             /\ OnlyTemplateMatches) =>
                /\ Len(chords) = 1
                /\ chords[1].chord = [tonic |-> notes[1], alias |-> ChordTypes[k].alias, bass |-> ""]
                /\ chords[1].confidence = FOne


(***************************************************************************)
(* Subset recovery, stated on the subsets of the whole input.              *)
(***************************************************************************)
\* The subsequences of ns that have k notes.
SubsetsOfSize(ns, k) ==
    {AtPositions(ns, S) : S \in {T \in SUBSET DOMAIN ns : Cardinality(T) = k}}

\* Those on which Chord.detect finds a chord.
MatchingSubsets(ns, k) == {sub \in SubsetsOfSize(ns, k) : Chord_detect(sub) # <<>>}

FirstCandidates(subs) == {Chord_detect(sub)[1] : sub \in subs}

RecoveredFrom(found, four, three) ==
    /\ (four # {} \/ three # {}) => found # <<>>
    /\ four # {} => found # <<>> /\ found[1].chord \in FirstCandidates(four)
    /\ (four = {} /\ three # {}) => found # <<>> /\ found[1].chord \in FirstCandidates(three)
    /\ found = <<>> => (four = {} /\ three = {})

Unmatched(nn, least, most) ==
    /\ Len(nn) >= least
    /\ Len(nn) <= most
    /\ Unique(nn) = nn
    /\ Chord_detect(nn) = <<>>

\* C17: when no template matches the full input of three to eight distinct
\* notes, detectChordsFromNotes returns a chord whenever a 4-note or a 3-note
\* subset of the whole input matches a template, the chord of a matching
\* 4-note subset if there is one, and returns [] only when no subset matches.
C17_RecoveryOverWholeInput ==
    (phase = "detected" /\ Unmatched(normalizeNotes(notes), 3, 8)) =>
        RecoveredFrom(chords, MatchingSubsets(normalizeNotes(notes), 4),
                      MatchingSubsets(normalizeNotes(notes), 3))


\* The candidate's notes are the note set its chord was found on: the
\* normalized input nn when Chord.detect(nn) finds a chord, otherwise a 4-note
\* or 3-note subset of nn on which Chord.detect finds the candidate's chord.
NotesAreMatchedSet(candidate, nn) ==
    IF Chord_detect(nn) # <<>> THEN candidate.notes = nn
    ELSE /\ candidate.notes \in SubsetsOfSize(nn, 4) \cup SubsetsOfSize(nn, 3)
         /\ candidate.notes # nn
         /\ Chord_detect(candidate.notes) # <<>>
         /\ Chord_detect(candidate.notes)[1] = candidate.chord

\* C18: the notes field of every candidate of detectChordsFromNotes and of
\* analyzeChordFromNotes is the literal note set that was matched: the
\* normalized input when the chord was found on the full input, the recovered
\* subset (without the discarded notes) when it was found by subset recovery.
C18_NotesFieldIsMatchedSet ==
    /\ phase = "detected" =>
           \A i \in DOMAIN chords : NotesAreMatchedSet(chords[i], normalizeNotes(notes))
    /\ (phase = "analyzed" /\ analysis # Null) =>
           NotesAreMatchedSet(analysis, normalizeNotes(notes))


(***************************************************************************)
(* SpecBlob: one call of AudioAnalyzer.analyzeAudioBlob(audioBlob), from   *)
(* one await to the next, while startAnalysis and stopAnalysis are called  *)
(* on the same analyzer. phase is the position of the call: "reading"      *)
(* (await audioBlob.arrayBuffer()), "decoding" (await decodeAudioData),    *)
(* "extracting" (await extractFrequenciesFromBuffer, "failing" when the    *)
(* awaited promise is a rejected one), "returned" (return detectedChords)  *)
(* and "caught" (the return [] of the catch block).                        *)
(***************************************************************************)
Blob == [type |-> "audio/wav"]

AnalyserNode == [fftSize |-> 2048]

MediaStreamAudioSourceNode == [connected |-> TRUE]

\* dataArray, holding the spectrum of the frame-th animation frame (0: as
\* new Uint8Array(bufferLength) left it).
Uint8Array(frame) == [frame |-> frame]

MaxFrames == 2

Analyzer(analyzing, node, source, data) ==
    [isAnalyzing |-> analyzing, analyser |-> node, microphone |-> source, dataArray |-> data]

\* The analyzer after construction, after an initialize() that getUserMedia
\* rejected, and after a successful initialize().
AnalyzerStates ==
    {Analyzer(FALSE, Null, Null, Null),
     Analyzer(FALSE, AnalyserNode, Null, Null),
     Analyzer(FALSE, AnalyserNode, MediaStreamAudioSourceNode, Uint8Array(0))}

\* Promise states of the call.
Pending == [state |-> "pending"]

Fulfilled(value) == [state |-> "fulfilled", value |-> value]

\* An error that leaves the async function: the promise is rejected with it.
ThrownOut(error) == [state |-> "rejected", reason |-> error]

\* catch (error) { console.error(...); return [] }
CaughtError(error) == Fulfilled(<<>>)

\* Channel 0 of the decoded AudioBuffer.
DecodedBuffers == LongBuffers \cup {Float32Array(<<>>)}

InitBlob ==
    /\ phase = "ready"
    /\ audioBlob \in {Null, Blob}
    /\ promise = NoPromise
    /\ \E a \in AnalyzerStates :
           /\ isAnalyzing = a.isAnalyzing
           /\ analyser = a.analyser
           /\ microphone = a.microphone
           /\ dataArray = a.dataArray
    /\ NoConfidenceCall /\ NoChordCall /\ NoFilterCall /\ NoExtractCall /\ NoNotesCall
    /\ NoPeaksCall /\ NoBufferCall
    /\ NoLaterCall

\* Line 125 up to its await; arrayBuffer of null throws a TypeError.
AnalyzeAudioBlob ==
    /\ phase = "ready"
    /\ IF audioBlob = Null
       THEN /\ promise' = CaughtError("TypeError")
            /\ phase' = "caught"
       ELSE /\ promise' = Pending
            /\ phase' = "reading"
    /\ UNCHANGED <<detectedNotes, chordNotes, confidence, notes, chords, analysis, peaks,
                   options, fundamentals, scores, mags, extracted, frequencies, pitchClasses,
                   frequency, noteInfo, frequencyData, binning, peakOptions, threshold,
                   foundPeaks, dominant, channelData, windows,
                   isAnalyzing, analyser, microphone, dataArray, audioBlob, laterVars>>

\* Lines 125-127: arrayBuffer() rejects, or the AudioContext constructor or
\* the call of decodeAudioData throws, or decoding starts.
ArrayBufferSettled ==
    /\ phase = "reading"
    /\ \E outcome \in {"arrayBuffer rejected", "AudioContext threw", "decoding"} :
           IF outcome = "decoding"
           THEN /\ phase' = "decoding"
                /\ UNCHANGED promise
           ELSE /\ phase' = "caught"
                /\ promise' = CaughtError(outcome)
    /\ UNCHANGED <<detectedNotes, chordNotes, confidence, notes, chords, analysis, peaks,
                   options, fundamentals, scores, mags, extracted, frequencies, pitchClasses,
                   frequency, noteInfo, frequencyData, binning, peakOptions, threshold,
                   foundPeaks, dominant, channelData, windows,
                   isAnalyzing, analyser, microphone, dataArray, audioBlob, laterVars>>

\* Lines 127-130: decodeAudioData rejects, or it resolves and the body of
\* FFTAnalyzer.extractFrequenciesFromBuffer runs on channel 0, or throws
\* when audioBuffer.getChannelData(0) does.
DecodeSettled ==
    /\ phase = "decoding"
    /\ \/ /\ phase' = "caught"
          /\ promise' = CaughtError("decodeAudioData rejected")
          /\ UNCHANGED <<channelData, windows, scores, mags, extracted>>
       \/ /\ phase' = "failing"
          /\ UNCHANGED <<promise, channelData, windows, scores, mags, extracted>>
       \/ /\ phase' = "extracting"
          /\ \E data \in DecodedBuffers :
                 IF EmptyBuffer(data)
                 THEN /\ channelData' = data
                      /\ extracted' = <<>>
                      /\ UNCHANGED <<windows, scores, mags>>
                 ELSE /\ windows' = HannWindows(data.samples)
                      /\ channelData' = Float32Array(BufferAfterWindowing(data.samples,
                                                         HannWindows(data.samples)))
                      /\ \E sc \in GoertzelScores(HannWindows(data.samples), BufferSpectra) :
                             /\ scores' = sc
                             /\ mags' = WeightedMags(sc)
                             /\ extracted' =
                                    FrequenciesOf(SelectFundamentals(RankedMaxima(WeightedMags(sc))))
          /\ UNCHANGED promise
    /\ UNCHANGED <<detectedNotes, chordNotes, confidence, notes, chords, analysis, peaks,
                   options, fundamentals, frequencies, pitchClasses,
                   frequency, noteInfo, frequencyData, binning, peakOptions, threshold,
                   foundPeaks, dominant,
                   isAnalyzing, analyser, microphone, dataArray, audioBlob, laterVars>>

\* Lines 130-137: the extraction rejected, or frequenciesToNotes and
\* detectChordsFromNotes run and audioContext.close() returns or throws.
ExtractionSettled ==
    /\ phase \in {"extracting", "failing"}
    /\ IF phase = "failing"
       THEN /\ phase' = "caught"
            /\ promise' = CaughtError("getChannelData threw")
            /\ UNCHANGED <<frequencies, pitchClasses, notes, chords>>
       ELSE /\ frequencies' = AsFrequencies(extracted)
            /\ pitchClasses' = frequenciesToNotes(AsFrequencies(extracted))
            /\ notes' = frequenciesToNotes(AsFrequencies(extracted))
            /\ chords' = detectChordsFromNotes(frequenciesToNotes(AsFrequencies(extracted)))
            /\ \E closed \in BOOLEAN :
                   IF closed
                   THEN /\ phase' = "returned"
                        /\ promise' = Fulfilled(detectChordsFromNotes(
                                          frequenciesToNotes(AsFrequencies(extracted))))
                   ELSE /\ phase' = "caught"
                        /\ promise' = CaughtError("close threw")
    /\ UNCHANGED <<detectedNotes, chordNotes, confidence, analysis, peaks,
                   options, fundamentals, scores, mags, extracted,
                   frequency, noteInfo, frequencyData, binning, peakOptions, threshold,
                   foundPeaks, dominant, channelData, windows,
                   isAnalyzing, analyser, microphone, dataArray, audioBlob, laterVars>>

\* analyser.getByteFrequencyData(dataArray) of the next frame.
NextFrame(data) == Uint8Array(data.frame + 1)

\* startAnalysis (lines 57-74), with its first call of analyze().
StartAnalysis ==
    /\ ~(analyser = Null \/ dataArray = Null \/ isAnalyzing)
    /\ dataArray.frame < MaxFrames
    /\ isAnalyzing' = TRUE
    /\ dataArray' = NextFrame(dataArray)
    /\ UNCHANGED <<phase, detectedNotes, chordNotes, confidence, notes, chords, analysis, peaks,
                   options, fundamentals, scores, mags, extracted, frequencies, pitchClasses,
                   frequency, noteInfo, frequencyData, binning, peakOptions, threshold,
                   foundPeaks, dominant, channelData, windows,
                   analyser, microphone, audioBlob, promise, laterVars>>

\* analyze (lines 63-71), called by requestAnimationFrame.
AnimationFrame ==
    /\ isAnalyzing
    /\ dataArray.frame < MaxFrames
    /\ dataArray' = NextFrame(dataArray)
    /\ UNCHANGED <<phase, detectedNotes, chordNotes, confidence, notes, chords, analysis, peaks,
                   options, fundamentals, scores, mags, extracted, frequencies, pitchClasses,
                   frequency, noteInfo, frequencyData, binning, peakOptions, threshold,
                   foundPeaks, dominant, channelData, windows,
                   isAnalyzing, analyser, microphone, audioBlob, promise, laterVars>>

StopAnalysis ==
    /\ isAnalyzing' = FALSE
    /\ UNCHANGED <<phase, detectedNotes, chordNotes, confidence, notes, chords, analysis, peaks,
                   options, fundamentals, scores, mags, extracted, frequencies, pitchClasses,
                   frequency, noteInfo, frequencyData, binning, peakOptions, threshold,
                   foundPeaks, dominant, channelData, windows,
                   analyser, microphone, dataArray, audioBlob, promise, laterVars>>

NextBlob ==
    \/ AnalyzeAudioBlob
    \/ ArrayBufferSettled
    \/ DecodeSettled
    \/ ExtractionSettled
    \/ StartAnalysis
    \/ AnimationFrame
    \/ StopAnalysis

SpecBlob == InitBlob /\ [][NextBlob]_vars

\* The promise of the call is never rejected; once the call is over it is
\* fulfilled with a list: the detected chords, or the empty list when the
\* call left through an error.
NeverRejects ==
    /\ promise.state # "rejected"
    /\ phase = "returned" => promise = Fulfilled(chords)
    /\ phase = "caught" => promise = Fulfilled(<<>>)

\* A step of the call (one that moves phase) assigns none of the fields.
CallKeepsAnalyzerState ==
    phase' # phase => UNCHANGED <<isAnalyzing, analyser, microphone>>

\* C19: analyzeAudioBlob never rejects: when reading the blob, creating the
\* context, decoding or a pipeline stage throws or rejects, the returned
\* promise resolves to [], it resolves to an array in every case, and the
\* call leaves isAnalyzing, analyser and microphone as they were.
C19_BlobAnalysisNeverRejects == []NeverRejects /\ [][CallKeepsAnalyzerState]_vars

\* A call that ended in the catch block while the analyzer was analyzing.
C19_CaughtWhileAnalyzing ==
    /\ phase = "caught"
    /\ promise = Fulfilled(<<>>)
    /\ isAnalyzing
    /\ microphone # Null


(***************************************************************************)
(* The arguments of the pipeline stages after the call.                    *)
(***************************************************************************)
\* A step of extractFrequenciesFromAudioData, of either variant, leaves every
\* element of channelData as it was.
BufferKept ==
    (phase = "ready" /\ phase' \in {"extracted", "estimated", "thrown"}) =>
        channelData' = channelData

\* A step of the FFT stage leaves frequencyData as it was, and the peaks
\* handed to filterHarmonicPeaks are afterwards still the list
\* findFrequencyPeaks returned, in its order.
PeakInputsKept ==
    (phase = "ready" /\ phase' = "dominant") =>
        /\ frequencyData' = frequencyData
        /\ (foundPeaks' # foundPeaks =>
               foundPeaks' = findFrequencyPeaks(frequencyData, binning, peakOptions'))

\* C20: the caller's sample buffer is unchanged by
\* extractFrequenciesFromAudioData (Hann windowing is applied to copies), for
\* every buffer length and for the Goertzel and the zero-crossing variant;
\* findFrequencyPeaks and filterHarmonicPeaks neither modify nor reorder
\* their input arrays.
C20_InputsUnmodified == [][BufferKept /\ PeakInputsKept]_vars

\* The Goertzel variant has run on a buffer longer than one window, and its
\* first window differs from the samples it was cut from.
C20_WindowedCopyDiffers ==
    /\ phase = "extracted"
    /\ channelData # Null
    /\ Len(channelData.samples) > WindowSize
    /\ windows # <<>>
    /\ windows[1] # SubSeq(channelData.samples, 1, WindowSize)


(***************************************************************************)
(* SpecCombinations: one call of combinations(arr, k), one pass of its     *)
(* while (true) loop per step. idxVec holds positions from 1: idx[i] of    *)
(* the code is idxVec[i + 1] - 1. LiveCombinations adds that a loop pass   *)
(* that can run does run.                                                  *)
(***************************************************************************)
MaxArray == 5

\* A bound on the passes of the loop, above every binomial coefficient of
\* the arrays tried.
MaxPasses == 40

CombinationArrays ==
    {[i \in 1..n |-> ChromaticSix[i]] : n \in 0..MaxArray}
        \cup {[i \in 1..n |-> IF i % 2 = 1 THEN "C" ELSE "E"] : n \in 2..MaxArray}

\* idx.map(i => arr[i])
SubsetAt(items, positions) == [j \in DOMAIN positions |-> items[positions[j]]]

\* The values of i at which while (i >= 0 && idx[i] === i + n - k) i-- can
\* stop: the entries of idx not yet at their last position.
Movable(positions, n) ==
    {i \in DOMAIN positions : positions[i] # i + n - Len(positions)}

\* idx[i]++ alone.
BumpedOnly(positions, i) ==
    [j \in DOMAIN positions |-> IF j = i THEN positions[i] + 1 ELSE positions[j]]

\* idx[i]++; for (j = i + 1; j < k; j++) idx[j] = idx[j - 1] + 1
SteppedIndices(positions, i) ==
    [j \in DOMAIN positions |-> IF j < i THEN positions[j] ELSE positions[i] + 1 + (j - i)]

InitCombinations ==
    /\ phase = "ready"
    /\ arrArg \in CombinationArrays
    /\ kArg \in (-1)..(MaxArray + 1)
    /\ idxVec = <<>>
    /\ resultList = <<>>
    /\ NoConfidenceCall /\ NoChordCall /\ NoFilterCall /\ NoExtractCall /\ NoNotesCall
    /\ NoPeaksCall /\ NoBufferCall /\ NoBlobCall /\ NoOverlapCall /\ NoLoopCall /\ NoRecorderCall /\ NoMatchCall /\ NoPage

\* Lines 186-189: if (k > n || k <= 0) return result; idx = [0, .., k - 1]
CombinationsCall ==
    /\ phase = "ready"
    /\ IF kArg > Len(arrArg) \/ kArg <= 0
       THEN /\ phase' = "returned"
            /\ UNCHANGED idxVec
       ELSE /\ phase' = "looping"
            /\ idxVec' = [j \in 1..kArg |-> j]
    /\ UNCHANGED <<stageVars, arrArg, kArg, resultList, overlapVars, loopVars, recVars, matchVars, pageVars>>

\* Lines 190-197: one pass of the loop, left by break when no entry of idx
\* can move.
CombinationsPass ==
    /\ phase = "looping"
    /\ Len(resultList) < MaxPasses
    /\ resultList' = Append(resultList, SubsetAt(arrArg, idxVec))
    /\ IF Movable(idxVec, Len(arrArg)) = {}
       THEN /\ phase' = "returned"
            /\ UNCHANGED idxVec
       ELSE /\ idxVec' = SteppedIndices(idxVec,
                             CHOOSE i \in Movable(idxVec, Len(arrArg)) :
                                 \A m \in Movable(idxVec, Len(arrArg)) : m <= i)
            /\ UNCHANGED phase
    /\ UNCHANGED <<stageVars, arrArg, kArg, overlapVars, loopVars, recVars, matchVars, pageVars>>

NextCombinations == CombinationsCall \/ CombinationsPass

SpecCombinations == InitCombinations /\ [][NextCombinations]_vars

LiveCombinations == SpecCombinations /\ WF_vars(NextCombinations)

\* The strictly increasing position tuples of length k over 1..n.
IncreasingTuples(n, k) ==
    {AtPositions([i \in 1..n |-> i], S) : S \in {T \in SUBSET (1..n) : Cardinality(T) = k}}

LexLess(a, b) ==
    \E j \in DOMAIN a : a[j] < b[j] /\ \A i \in 1..(j - 1) : a[i] = b[i]

\* The k-subsets of items by increasing positions, in lexicographic order.
LexSubsets(items, k) ==
    IF k <= 0 \/ k > Len(items) THEN <<>>
    ELSE [r \in 1..Cardinality(IncreasingTuples(Len(items), k)) |->
             SubsetAt(items,
                 CHOOSE t \in IncreasingTuples(Len(items), k) :
                     Cardinality({u \in IncreasingTuples(Len(items), k) : LexLess(u, t)}) = r - 1)]

CombinationsReturned == phase = "returned"

\* C23: for every array and every integer k, combinations(arr, k) leaves its
\* loop, and what it returns is the list of the k-subsets of arr by strictly
\* increasing index, in lexicographic order, each once; [] when k <= 0 or
\* k > n.
C23_CombinationsTerminate ==
    /\ [](CombinationsReturned => resultList = LexSubsets(arrArg, kArg))
    /\ <>CombinationsReturned

\* A call that returned the ten 3-subsets of five elements.
C23_TenSubsetsOfFive ==
    /\ phase = "returned"
    /\ Len(arrArg) = 5
    /\ kArg = 3
    /\ Len(resultList) = 10


(***************************************************************************)
(* SpecOverlap: two calls of analyzeAudioBlob that overlap, on one         *)
(* AudioAnalyzer or on two, with the FFTAnalyzer of wav-decoder.d.ts       *)
(* 14-63, which keeps the OfflineAudioContext of the last call in the      *)
(* field offlineContext. A call moves from one await to the next:          *)
(* "reading" (audioBlob.arrayBuffer()), "decoding" (decodeAudioData),      *)
(* "rendering" (offlineContext.startRendering()), "extracted" (the await   *)
(* of extractFrequenciesFromBuffer), then "returned" or "caught".          *)
(***************************************************************************)
Calls == {1, 2}

\* What was recorded in the blob of a call.
Recordings == {"silence", "C major", "A minor"}

\* analyser.fftSize = 4096, at the sample rate 44100
RenderBinning == [sampleRate |-> 44100, fftSize |-> 4096]

\* The rendered byte spectrum of a recording: full bins at about the
\* frequencies of its notes (bin 10 is 107.7 Hz, 12 129.2 Hz, 15 161.5 Hz,
\* 18 193.8 Hz).
RecordingBins ==
    [r \in Recordings |->
        IF r = "C major" THEN {12, 15, 18} ELSE IF r = "A minor" THEN {10, 12, 15} ELSE {}]

RenderedSpectrum(recording) ==
    [i \in 1..21 |-> IF (i - 1) \in RecordingBins[recording] THEN 200 ELSE 0]

\* new OfflineAudioContext(...) with source.buffer = audioBuffer
OfflineAudioContext(call, recording) == [call |-> call, buffer |-> recording]

\* The analyser a call reads after rendering, were it taken from the field.
FieldAnalyser(own, field) == field

\* The analyser a call reads after rendering: the local const analyser.
LocalAnalyser(own, field) == own

NewCall(instance, recording) ==
    [pc |-> "ready", instance |-> instance, recording |-> recording, analyser |-> Null,
     frequencies |-> <<>>, promise |-> NoPromise]

InitOverlap ==
    /\ phase = "ready"
    /\ \E second \in Calls, r1, r2 \in Recordings :
           calls = [c \in Calls |-> IF c = 1 THEN NewCall(1, r1) ELSE NewCall(second, r2)]
    /\ offlineContext = [i \in Calls |-> Null]
    /\ NoConfidenceCall /\ NoChordCall /\ NoFilterCall /\ NoExtractCall /\ NoNotesCall
    /\ NoPeaksCall /\ NoBufferCall /\ NoBlobCall /\ NoCombinationsCall /\ NoLoopCall /\ NoRecorderCall /\ NoMatchCall /\ NoPage

Caught(call) == [call EXCEPT !.pc = "caught", !.promise = CaughtError("rejected")]

\* audio-analyzer.ts 125, up to the await
BlobCalled(c) ==
    /\ calls[c].pc = "ready"
    /\ calls' = [calls EXCEPT ![c].pc = "reading", ![c].promise = Pending]
    /\ UNCHANGED <<phase, stageVars, combVars, loopVars, recVars, matchVars, pageVars, offlineContext>>

\* audio-analyzer.ts 125-127
BlobRead(c) ==
    /\ calls[c].pc = "reading"
    /\ \/ calls' = [calls EXCEPT ![c].pc = "decoding"]
       \/ calls' = [calls EXCEPT ![c] = Caught(calls[c])]
    /\ UNCHANGED <<phase, stageVars, combVars, loopVars, recVars, matchVars, pageVars, offlineContext>>

\* audio-analyzer.ts 127-130 with wav-decoder.d.ts 20-47: the context goes
\* to the field, the analyser made from it to a local.
BlobDecoded(c) ==
    /\ calls[c].pc = "decoding"
    /\ \/ /\ calls' = [calls EXCEPT ![c].pc = "rendering",
                           ![c].analyser = OfflineAudioContext(c, calls[c].recording)]
          /\ offlineContext' = [offlineContext EXCEPT
                                   ![calls[c].instance] = OfflineAudioContext(c, calls[c].recording)]
       \/ /\ calls' = [calls EXCEPT ![c] = Caught(calls[c])]
          /\ UNCHANGED offlineContext
    /\ UNCHANGED <<phase, stageVars, combVars, loopVars, recVars, matchVars, pageVars>>

\* wav-decoder.d.ts 47-54: getByteFrequencyData and
\* extractDominantFrequenciesFromFFT, or startRendering rejected.
BlobRendered(c) ==
    /\ calls[c].pc = "rendering"
    /\ \/ calls' = [calls EXCEPT
                       ![c].pc = "extracted",
                       ![c].frequencies =
                           IF LocalAnalyser(calls[c].analyser,
                                            offlineContext[calls[c].instance]) = Null
                           THEN <<>>
                           ELSE extractDominantFrequenciesFromFFT(
                                    RenderedSpectrum(
                                        LocalAnalyser(calls[c].analyser,
                                            offlineContext[calls[c].instance]).buffer),
                                    RenderBinning)]
       \/ calls' = [calls EXCEPT ![c].pc = "failing"]
    /\ UNCHANGED <<phase, stageVars, combVars, loopVars, recVars, matchVars, pageVars, offlineContext>>

\* audio-analyzer.ts 130-141
BlobExtracted(c) ==
    /\ calls[c].pc \in {"extracted", "failing"}
    /\ IF calls[c].pc = "failing"
       THEN calls' = [calls EXCEPT ![c] = Caught(calls[c])]
       ELSE calls' = [calls EXCEPT
                         ![c].pc = "returned",
                         ![c].promise = Fulfilled(detectChordsFromNotes(
                             frequenciesToNotes(AsFrequencies(calls[c].frequencies))))]
    /\ UNCHANGED <<phase, stageVars, combVars, loopVars, recVars, matchVars, pageVars, offlineContext>>

\* FFTAnalyzer.dispose (wav-decoder.d.ts 60-62)
DisposeFFTAnalyzer(i) ==
    /\ offlineContext[i] # Null
    /\ offlineContext' = [offlineContext EXCEPT ![i] = Null]
    /\ UNCHANGED <<phase, stageVars, combVars, loopVars, recVars, matchVars, pageVars, calls>>

NextOverlap ==
    \/ \E c \in Calls : BlobCalled(c)
    \/ \E c \in Calls : BlobRead(c)
    \/ \E c \in Calls : BlobDecoded(c)
    \/ \E c \in Calls : BlobRendered(c)
    \/ \E c \in Calls : BlobExtracted(c)
    \/ \E i \in Calls : DisposeFFTAnalyzer(i)

SpecOverlap == InitOverlap /\ [][NextOverlap]_vars

\* What a call on a recording returns when no other call runs.
ChordsAlone(recording) ==
    detectChordsFromNotes(frequenciesToNotes(AsFrequencies(
        extractDominantFrequenciesFromFFT(RenderedSpectrum(recording), RenderBinning))))

\* C21: when two analyzeAudioBlob calls overlap, on one analyzer or on two,
\* then for every interleaving of their await points each call resolves to
\* the result it returns when run alone on its own buffer ([] when one of
\* its own steps failed).
C21_OverlappingCallsIndependent ==
    \A c \in Calls :
        /\ calls[c].pc = "returned" =>
               calls[c].promise = Fulfilled(ChordsAlone(calls[c].recording))
        /\ calls[c].pc = "caught" => calls[c].promise = Fulfilled(<<>>)

\* Both calls ran on one analyzer, the second took the field while the first
\* was rendering, and the first returned its own chord.
C21_FirstReturnedAfterFieldTaken ==
    /\ calls[1].instance = calls[2].instance
    /\ calls[1].recording = "C major"
    /\ calls[2].recording = "A minor"
    /\ calls[1].pc = "returned"
    /\ calls[1].promise.value # <<>>
    /\ offlineContext[1] = OfflineAudioContext(2, "A minor")
    /\ calls[2].pc = "rendering"


(***************************************************************************)
(* SpecLoop: startAnalysis, stopAnalysis, dispose and the animation frames *)
(* of one AudioAnalyzer. phase is the last operation that ran. A frame     *)
(* runs every callback requestAnimationFrame holds, one after the other;   *)
(* callbackLog has one entry per call of the user callback: 0 for the call *)
(* startAnalysis makes itself, n for a call in the n-th frame.             *)
(***************************************************************************)
MaxCallbacks == 4

\* if (!this.isAnalyzing) return, were it absent
RunsAlways(analyzing) == TRUE

\* analyze runs on when this.isAnalyzing holds
RunsOn(analyzing) == analyzing

\* if (!this.analyser || !this.dataArray || this.isAnalyzing) return
StartRefused == analyser = Null \/ dataArray = Null \/ isAnalyzing

InitLoop ==
    /\ phase = "ready"
    /\ \E a \in AnalyzerStates :
           /\ isAnalyzing = a.isAnalyzing
           /\ analyser = a.analyser
           /\ microphone = a.microphone
           /\ dataArray = a.dataArray
    /\ audioBlob = Null
    /\ promise = NoPromise
    /\ pendingFrames = 0
    /\ callbackLog = <<>>
    /\ frameCount = 0
    /\ NoConfidenceCall /\ NoChordCall /\ NoFilterCall /\ NoExtractCall /\ NoNotesCall
    /\ NoPeaksCall /\ NoBufferCall /\ NoCombinationsCall /\ NoOverlapCall /\ NoRecorderCall /\ NoMatchCall /\ NoPage

\* startAnalysis with its first call of analyze (lines 57-74)
StartAnalysisCall ==
    /\ phase' = "startAnalysis"
    /\ IF StartRefused
       THEN UNCHANGED <<isAnalyzing, dataArray, pendingFrames, callbackLog>>
       ELSE /\ Len(callbackLog) < MaxCallbacks
            /\ isAnalyzing' = TRUE
            /\ dataArray' = NextFrame(dataArray)
            /\ callbackLog' = Append(callbackLog, 0)
            /\ pendingFrames' = pendingFrames + 1
    /\ UNCHANGED <<detectedNotes, chordNotes, confidence, notes, chords, analysis, peaks,
                   options, fundamentals, scores, mags, extracted, frequencies, pitchClasses,
                   frequency, noteInfo, frequencyData, binning, peakOptions, threshold,
                   foundPeaks, dominant, channelData, windows,
                   analyser, microphone, audioBlob, promise,
                   combVars, overlapVars, recVars, matchVars, pageVars, frameCount>>

\* stopAnalysis (lines 79-81)
StopAnalysisCall ==
    /\ phase' = "stopAnalysis"
    /\ isAnalyzing' = FALSE
    /\ UNCHANGED <<detectedNotes, chordNotes, confidence, notes, chords, analysis, peaks,
                   options, fundamentals, scores, mags, extracted, frequencies, pitchClasses,
                   frequency, noteInfo, frequencyData, binning, peakOptions, threshold,
                   foundPeaks, dominant, channelData, windows,
                   analyser, microphone, dataArray, audioBlob, promise,
                   combVars, overlapVars, loopVars, recVars, matchVars, pageVars>>

\* dispose (lines 168-173): stopAnalysis, then the nodes are disconnected
\* and the context closed; the fields keep them.
DisposeCall ==
    /\ phase' = "dispose"
    /\ isAnalyzing' = FALSE
    /\ UNCHANGED <<detectedNotes, chordNotes, confidence, notes, chords, analysis, peaks,
                   options, fundamentals, scores, mags, extracted, frequencies, pitchClasses,
                   frequency, noteInfo, frequencyData, binning, peakOptions, threshold,
                   foundPeaks, dominant, channelData, windows,
                   analyser, microphone, dataArray, audioBlob, promise,
                   combVars, overlapVars, loopVars, recVars, matchVars, pageVars>>

\* analyser.getByteFrequencyData(dataArray), count times
FramesRead(data, count) == Uint8Array(data.frame + count)

\* An animation frame: every pending analyze (lines 63-71) runs, and calls
\* the callback and requestAnimationFrame again or returns.
AnimationFrameFires ==
    /\ pendingFrames > 0
    /\ frameCount < MaxFrames
    /\ phase' = "frame"
    /\ frameCount' = frameCount + 1
    /\ IF RunsOn(isAnalyzing)
       THEN /\ Len(callbackLog) + pendingFrames <= MaxCallbacks
            /\ callbackLog' = callbackLog \o [i \in 1..pendingFrames |-> frameCount + 1]
            /\ dataArray' = FramesRead(dataArray, pendingFrames)
            /\ UNCHANGED pendingFrames
       ELSE /\ pendingFrames' = 0
            /\ UNCHANGED <<callbackLog, dataArray>>
    /\ UNCHANGED <<detectedNotes, chordNotes, confidence, notes, chords, analysis, peaks,
                   options, fundamentals, scores, mags, extracted, frequencies, pitchClasses,
                   frequency, noteInfo, frequencyData, binning, peakOptions, threshold,
                   foundPeaks, dominant, channelData, windows,
                   isAnalyzing, analyser, microphone, audioBlob, promise,
                   combVars, overlapVars, recVars, matchVars, pageVars>>

NextLoop == StartAnalysisCall \/ StopAnalysisCall \/ DisposeCall \/ AnimationFrameFires

SpecLoop == InitLoop /\ [][NextLoop]_vars

\* The number of calls of the user callback in frame n.
CallsInFrame(n) == Cardinality({i \in DOMAIN callbackLog : callbackLog[i] = n})

\* C24: on an initialized analyzer, for every sequence of startAnalysis,
\* stopAnalysis and animation frames, at most one frame callback is pending
\* and the user callback is called at most once per animation frame, also
\* when startAnalysis follows stopAnalysis before the scheduled frame fired.
C24_OneLoopAlive ==
    /\ pendingFrames <= 1
    /\ \A n \in 1..frameCount : CallsInFrame(n) <= 1

\* A startAnalysis that is refused changes nothing.
RefusedStartHasNoEffect ==
    (phase' = "startAnalysis" /\ StartRefused) =>
        UNCHANGED <<isAnalyzing, pendingFrames, callbackLog>>

\* While the analysis is stopped, only a startAnalysis leads to a call of
\* the user callback.
StoppedStaysSilent ==
    (~isAnalyzing /\ phase' # "startAnalysis") => callbackLog' = callbackLog

\* C25: startAnalysis has no effect (no callback, no frame scheduled,
\* isAnalyzing unchanged) on an analyzer that is not initialized or is
\* already analyzing; and after stopAnalysis or dispose, until startAnalysis
\* is called again, the user callback is not called, although a frame
\* scheduled before the stop still fires.
C25_StartGuardedStopSilences == [][RefusedStartHasNoEffect /\ StoppedStaysSilent]_vars

\* A frame scheduled before the stop fired after it and called nothing.
C25_FrameFiredAfterStop ==
    /\ phase = "frame"
    /\ ~isAnalyzing
    /\ frameCount = 1
    /\ pendingFrames = 0
    /\ callbackLog = <<0>>


(***************************************************************************)
(* SpecRecorder: one AudioRecorder under any interleaving of its calls     *)
(* with the tasks of the event loop. A startRecording call runs up to the  *)
(* await of getUserMedia and goes on when that settles; MediaRecorder.stop *)
(* makes the recorder inactive at once and queues one task that fires      *)
(* dataavailable and then stop. Streams, recorders and promises are        *)
(* numbered in the order they were made; 0 stands for null.                *)
(***************************************************************************)
MaxStarts == 2
MaxStops == 2

\* event.data.size of the Blob a dataavailable event carries
ChunkSizes == {0, 1}

\* What happens after the getUserMedia call of startRecording.
StartOutcomes == {"denied", "no recorder", "start throws", "recording"}

MediaRecorder(ofStream, state) ==
    [stream |-> ofStream, state |-> state, onstop |-> 0, stopping |-> FALSE, delivered |-> <<>>]

\* new Promise(...) before it settles, with the phase it was made in and
\* the recorder it was made for
NewStopPromise(after, target) ==
    [state |-> "pending", blob |-> FALSE, parts |-> <<>>, after |-> after, target |-> target]

\* resolve(value): a settled promise stays as it is
Resolve(p, isBlob, parts) ==
    IF p.state = "pending"
    THEN [p EXCEPT !.state = "fulfilled", !.blob = isBlob, !.parts = parts]
    ELSE p

\* a throw in the executor rejects the promise
Reject(p) == IF p.state = "pending" THEN [p EXCEPT !.state = "rejected"] ELSE p

\* get isRecording (lines 63-65)
IsRecordingOf(recorder, all) == recorder # 0 /\ all[recorder].state = "recording"

isRecording == IsRecordingOf(mediaRecorder, recorders)

\* MediaRecorder.stop() on a recording recorder
Stopped(r) == [r EXCEPT !.state = "inactive", !.stopping = TRUE]

\* track.stop() on every track of a stream ends it, and a recorder that is
\* recording an ended stream stops.
TracksStopped(all, ended) ==
    [r \in DOMAIN all |->
        IF all[r].stream = ended /\ all[r].state = "recording" THEN Stopped(all[r]) ELSE all[r]]

\* cleanup (lines 70-77), on the recorders as they are when it is called
Cleanup(all) ==
    /\ streams' = IF stream # 0 THEN [streams EXCEPT ![stream] = "ended"] ELSE streams
    /\ recorders' = IF stream # 0 THEN TracksStopped(all, stream) ELSE all
    /\ stream' = 0
    /\ mediaRecorder' = 0
    /\ audioChunks' = <<>>

InitRecorder ==
    /\ phase = "ready"
    /\ NoRecorderCall
    /\ NoConfidenceCall /\ NoChordCall /\ NoFilterCall /\ NoExtractCall /\ NoNotesCall
    /\ NoPeaksCall /\ NoBufferCall /\ NoBlobCall /\ NoCombinationsCall /\ NoOverlapCall
    /\ NoLoopCall /\ NoMatchCall /\ NoPage

\* startRecording up to await navigator.mediaDevices.getUserMedia (lines 11-22)
StartRecordingCalled ==
    /\ Len(startCalls) < MaxStarts
    /\ phase' = "startRecording"
    /\ startCalls' = Append(startCalls, "pending")
    /\ UNCHANGED <<stageVars, combVars, overlapVars, loopVars, matchVars, pageVars,
                   stream, mediaRecorder, audioChunks, streams, recorders, stopCalls>>

\* startRecording from the settling of getUserMedia to its return (lines 22-37)
GetUserMediaSettled(c, outcome) ==
    /\ c \in DOMAIN startCalls
    /\ startCalls[c] = "pending"
    /\ phase' = IF outcome = "recording" THEN "started" ELSE "start failed"
    /\ startCalls' = [startCalls EXCEPT ![c] = IF outcome = "recording" THEN "true" ELSE "false"]
    /\ IF outcome = "denied"
       THEN UNCHANGED <<stream, mediaRecorder, audioChunks, streams, recorders>>
       ELSE /\ streams' = Append(streams, "live")
            /\ stream' = Len(streams) + 1
            /\ IF outcome = "no recorder"
               THEN UNCHANGED <<mediaRecorder, audioChunks, recorders>>
               ELSE /\ recorders' = Append(recorders,
                           MediaRecorder(Len(streams) + 1,
                                         IF outcome = "recording" THEN "recording" ELSE "inactive"))
                    /\ mediaRecorder' = Len(recorders) + 1
                    /\ audioChunks' = <<>>
    /\ UNCHANGED <<stageVars, combVars, overlapVars, loopVars, matchVars, pageVars, stopCalls>>

\* stopRecording (lines 43-58). stop() on an inactive recorder does nothing
\* or throws InvalidStateError, with the browser.
StopRecordingCalled(throws) ==
    /\ Len(stopCalls) < MaxStops
    /\ phase' = "stopRecording"
    /\ IF mediaRecorder = 0
       THEN /\ stopCalls' = Append(stopCalls, Resolve(NewStopPromise(phase, 0), FALSE, <<>>))
            /\ UNCHANGED recorders
       ELSE IF recorders[mediaRecorder].state = "recording"
       THEN /\ stopCalls' = Append(stopCalls, NewStopPromise(phase, mediaRecorder))
            /\ recorders' = [recorders EXCEPT ![mediaRecorder] =
                                 [Stopped(@) EXCEPT !.onstop = Len(stopCalls) + 1]]
       ELSE /\ stopCalls' = Append(stopCalls,
                                   IF throws THEN Reject(NewStopPromise(phase, mediaRecorder))
                                   ELSE NewStopPromise(phase, mediaRecorder))
            /\ recorders' = [recorders EXCEPT ![mediaRecorder].onstop = Len(stopCalls) + 1]
    /\ UNCHANGED <<stageVars, combVars, overlapVars, loopVars, matchVars, pageVars,
                   stream, mediaRecorder, audioChunks, streams, startCalls>>

\* ondataavailable (lines 26-30), as the new value of this.audioChunks
ChunkPushed(chunks, chunk) == IF chunk.size > 0 THEN Append(chunks, chunk) ELSE chunks

\* The recorders when the stop task of r has fired dataavailable with size.
Delivered(all, r, size) ==
    [all EXCEPT ![r].stopping = FALSE, ![r].delivered = Append(@, size)]

\* The task a stop queued: dataavailable with the last data, then stop
\* with the onstop handler of lines 50-54 if one is set.
StopEventFires(r, size) ==
    /\ r \in DOMAIN recorders
    /\ recorders[r].stopping
    /\ phase' = "stop event"
    /\ IF recorders[r].onstop = 0
       THEN /\ audioChunks' = ChunkPushed(audioChunks, [recorder |-> r, size |-> size])
            /\ recorders' = Delivered(recorders, r, size)
            /\ UNCHANGED <<stream, mediaRecorder, streams, stopCalls>>
       ELSE /\ stopCalls' = [stopCalls EXCEPT ![recorders[r].onstop] =
                                 Resolve(@, TRUE,
                                         ChunkPushed(audioChunks, [recorder |-> r, size |-> size]))]
            /\ Cleanup(Delivered(recorders, r, size))
    /\ UNCHANGED <<stageVars, combVars, overlapVars, loopVars, matchVars, pageVars, startCalls>>

\* dispose (lines 82-87)
DisposeRecorder ==
    /\ phase' = "dispose"
    /\ Cleanup(IF isRecording THEN [recorders EXCEPT ![mediaRecorder] = Stopped(@)]
               ELSE recorders)
    /\ UNCHANGED <<stageVars, combVars, overlapVars, loopVars, matchVars, pageVars, startCalls, stopCalls>>

NextRecorder ==
    \/ StartRecordingCalled
    \/ \E c \in DOMAIN startCalls, outcome \in StartOutcomes : GetUserMediaSettled(c, outcome)
    \/ \E throws \in BOOLEAN : StopRecordingCalled(throws)
    \/ \E r \in DOMAIN recorders, size \in ChunkSizes : StopEventFires(r, size)
    \/ DisposeRecorder

SpecRecorder == InitRecorder /\ [][NextRecorder]_vars

\* The event loop runs every task that is queued, and getUserMedia settles.
LiveRecorder ==
    /\ SpecRecorder
    /\ \A r \in 1..MaxStarts : WF_vars(\E size \in ChunkSizes : StopEventFires(r, size))
    /\ \A c \in 1..MaxStarts : WF_vars(\E outcome \in StartOutcomes : GetUserMediaSettled(c, outcome))


RECURSIVE NonEmptyChunks(_, _)
\* The chunks of recorder r that have a size, in the order of their sizes.
NonEmptyChunks(r, sizes) ==
    IF sizes = <<>> THEN <<>>
    ELSE IF Head(sizes) > 0
         THEN <<[recorder |-> r, size |-> Head(sizes)]>> \o NonEmptyChunks(r, Tail(sizes))
         ELSE NonEmptyChunks(r, Tail(sizes))

\* The recorder object holds nothing.
HoldsNothing == stream = 0 /\ mediaRecorder = 0 /\ audioChunks = <<>>

\* A stopRecording that was called right after a startRecording resolved
\* true resolves with the chunks of that recording and leaves nothing.
StopGivesTheRecording ==
    \A p \in DOMAIN stopCalls :
        (/\ stopCalls[p].after = "started"
         /\ stopCalls[p].state = "pending"
         /\ stopCalls'[p].state # "pending") =>
            /\ stopCalls'[p].state = "fulfilled"
            /\ stopCalls'[p].blob
            /\ stopCalls'[p].parts =
                   NonEmptyChunks(stopCalls[p].target, recorders'[stopCalls[p].target].delivered)
            /\ ~isRecording'
            /\ HoldsNothing'

\* C22: after startRecording resolves true, isRecording is true; a following
\* stopRecording resolves with a Blob built from exactly the non-empty chunks
\* ondataavailable delivered since that startRecording, in arrival order and
\* none from an earlier recording, and once it has resolved isRecording is
\* false and the recorder holds no stream, recorder or chunks.
C22_StopReturnsTheRecording ==
    /\ [](phase = "started" => isRecording)
    /\ [][StopGivesTheRecording]_vars

\* Every stopRecording promise settles.
StopSettles(p) ==
    [](p \in DOMAIN stopCalls => <>(p \in DOMAIN stopCalls /\ stopCalls[p].state # "pending"))

\* A stopRecording with no recorder has resolved null when it returns.
NullWithoutRecorder ==
    \A p \in DOMAIN stopCalls :
        stopCalls[p].target = 0 => stopCalls[p].state = "fulfilled" /\ ~stopCalls[p].blob

\* C26: every promise stopRecording returns settles in the end, for every
\* interleaving of startRecording, stopRecording, dispose and the stop
\* event, a second stopRecording or a dispose between the first stopRecording
\* and its stop event included; with no recorder it resolves null at once.
C26_StopPromisesSettle ==
    /\ \A p \in 1..MaxStops : StopSettles(p)
    /\ []NullWithoutRecorder

\* A stopRecording promise resolves in this step.
StopResolves ==
    \E p \in DOMAIN stopCalls' :
        /\ stopCalls'[p].state = "fulfilled"
        /\ p \in DOMAIN stopCalls => stopCalls[p].state = "pending"

\* The tracks of every stream obtained so far have been stopped.
AllReleased == \A s \in DOMAIN streams : streams[s] = "ended"

\* C27: for any sequence of startRecording, stopRecording and dispose calls,
\* once stopRecording has resolved or dispose has returned, the tracks of
\* every MediaStream startRecording obtained so far have been stopped.
C27_StreamsReleased == [][(StopResolves \/ phase' = "dispose") => AllReleased']_vars


(***************************************************************************)
(* SpecMatch: analyzeAudio from the point where analyzeAudioBlob has       *)
(* resolved (chord-analyzer.ts 88-135). A name is the sequence of its      *)
(* characters, so that the regular expressions of normalize are computed   *)
(* character by character.                                                 *)
(***************************************************************************)
MaxDetectedChords == 2

\* expectedChord.name of the major and minor chords of the chord lists
ExpectedNames == {<<"C", " ", "M", "a", "j", "o", "r">>,
                  <<"E", " ", "M", "a", "j", "o", "r">>,
                  <<"A", " ", "M", "i", "n", "o", "r">>,
                  <<"E", " ", "M", "i", "n", "o", "r">>}

\* detected.chord: chord names as the detection writes them
DetectedChordNames == {<<"C">>,
                  <<"C", "M">>,
                  <<"C", "/", "E">>,
                  <<"C", "m">>,
                  <<"C", "#", "M">>,
                  <<"C", "b", "M">>,
                  <<"C", "m", "a", "j", "7">>,
                  <<"C", "7">>,
                  <<"E", "M">>,
                  <<"E", "m">>,
                  <<"E", "m", "/", "G">>,
                  <<"E", "m", "/", "B">>,
                  <<"E", "m", "a", "j", "7">>,
                  <<"E", "b", "m">>,
                  <<"E", "m", "7">>,
                  <<"E", "7">>,
                  <<"A", "m">>,
                  <<"A", "M">>,
                  <<"E", "s", "u", "s", "4">>}

UpperCase == <<"A", "B", "C", "D", "E", "F", "G", "H", "I", "J", "K", "L", "M", "N", "O", "P", "Q", "R", "S", "T", "U", "V", "W", "X", "Y", "Z">>

LowerCase == <<"a", "b", "c", "d", "e", "f", "g", "h", "i", "j", "k", "l", "m", "n", "o", "p", "q", "r", "s", "t", "u", "v", "w", "x", "y", "z">>

Digits == {"0", "1", "2", "3", "4", "5", "6", "7", "8", "9"}

\* \w of a regular expression
IsWordChar(ch) == ch \in Range(UpperCase) \cup Range(LowerCase) \cup Digits \cup {"_"}

\* String.prototype.toLowerCase
ToLowerCase(name) ==
    [i \in DOMAIN name |->
        IF name[i] \in Range(UpperCase)
        THEN LowerCase[CHOOSE k \in DOMAIN UpperCase : UpperCase[k] = name[i]]
        ELSE name[i]]

RECURSIVE TrimStart(_)
TrimStart(name) ==
    IF name # <<>> /\ Head(name) = " " THEN TrimStart(Tail(name)) ELSE name

RECURSIVE TrimEnd(_)
TrimEnd(name) ==
    IF name # <<>> /\ name[Len(name)] = " " THEN TrimEnd(SubSeq(name, 1, Len(name) - 1)) ELSE name

\* String.prototype.trim
Trim(name) == TrimEnd(TrimStart(name))

\* The word is in the name from position i on.
OccursAt(name, word, i) ==
    /\ i >= 1
    /\ i + Len(word) - 1 <= Len(name)
    /\ SubSeq(name, i, i + Len(word) - 1) = word

\* String.prototype.includes, and a regular expression that is one word
IncludesWord(name, word) == \E i \in 1..(Len(name) + 1) : OccursAt(name, word, i)

\* String.prototype.startsWith
StartsWith(name, word) == OccursAt(name, word, 1)

\* /word\s*7/
WordSpaces7(name, word) ==
    \E i \in DOMAIN name, j \in DOMAIN name :
        /\ OccursAt(name, word, i)
        /\ j >= i + Len(word)
        /\ name[j] = "7"
        /\ \A k \in (i + Len(word))..(j - 1) : name[k] = " "

\* \b between positions i - 1 and i
WordBoundary(name, i) ==
    (i - 1 \in DOMAIN name /\ IsWordChar(name[i - 1])) # (i \in DOMAIN name /\ IsWordChar(name[i]))

\* /\bword\b/
WholeWord(name, word) ==
    \E i \in DOMAIN name :
        OccursAt(name, word, i) /\ WordBoundary(name, i) /\ WordBoundary(name, i + Len(word))

\* The length of the match of /^[a-g](#|b)?/, 0 for no match
RootLength(lower) ==
    IF lower = <<>> \/ lower[1] \notin {"a", "b", "c", "d", "e", "f", "g"} THEN 0
    ELSE IF Len(lower) >= 2 /\ lower[2] \in {"#", "b"} THEN 2
    ELSE 1

\* replace(/\s+/g, '')
RECURSIVE WithoutSpaces(_)
WithoutSpaces(name) ==
    IF name = <<>> THEN <<>>
    ELSE IF Head(name) = " " THEN WithoutSpaces(Tail(name))
    ELSE <<Head(name)>> \o WithoutSpaces(Tail(name))

\* normalize, from the trimmed lower-case name and its root on (lines 95-105)
NormalizeLower(lower, root) ==
    IF IncludesWord(lower, <<"m", "a", "j", "7">>) \/ WordSpaces7(lower, <<"m", "a", "j", "o", "r">>) THEN root \o <<"m", "a", "j", "7">>
    ELSE IF IncludesWord(lower, <<"m", "7">>) \/ WordSpaces7(lower, <<"m", "i", "n", "o", "r">>) THEN root \o <<"m", "7">>
    ELSE IF IncludesWord(lower, <<"s", "u", "s", "2">>) THEN root \o <<"s", "u", "s", "2">>
    ELSE IF IncludesWord(lower, <<"s", "u", "s", "4">>) THEN root \o <<"s", "u", "s", "4">>
    ELSE IF WholeWord(lower, <<"7">>) THEN root \o <<"7">>
    ELSE IF WholeWord(lower, <<"m", "i", "n", "o", "r">>) THEN root \o <<"m">>
    ELSE IF WholeWord(lower, <<"m", "a", "j", "o", "r">>) THEN root
    ELSE WithoutSpaces(lower)

\* const root = rootMatch ? rootMatch[0] : lower
RootOf(lower) == IF RootLength(lower) = 0 THEN lower ELSE SubSeq(lower, 1, RootLength(lower))

\* normalize (lines 89-106)
Normalize(name) == NormalizeLower(ToLowerCase(Trim(name)), RootOf(ToLowerCase(Trim(name))))

\* expectedNormalized.match(/^([a-g](#|b)?)m$/)
MinorMatch(expected) ==
    /\ RootLength(expected) > 0
    /\ \E n \in 1..RootLength(expected) :
           /\ Len(expected) = n + 1
           /\ expected[n + 1] = "m"
           /\ (n = 2 => expected[2] \in {"#", "b"})

\* expectedNormalized.match(/^([a-g](#|b)?)$/)
TriadMatch(expected) == RootLength(expected) > 0 /\ Len(expected) = RootLength(expected)


\* The callback of detectedChords.some (lines 109-130), on normalized names
SomeCallback(detected, expected) ==
    IF detected = expected THEN TRUE
    ELSE IF MinorMatch(expected)
         THEN /\ StartsWith(detected, SubSeq(expected, 1, Len(expected) - 1))
              /\ IncludesWord(detected, <<"m">>)
    ELSE IF TriadMatch(expected) THEN StartsWith(detected, expected)
    ELSE FALSE

InitMatch ==
    /\ phase = "ready"
    /\ expectedChord \in ExpectedNames
    /\ detectedChords \in SeqsUpTo(DetectedChordNames, MaxDetectedChords)
    /\ isCorrect = FALSE
    /\ NoConfidenceCall /\ NoChordCall /\ NoFilterCall /\ NoExtractCall /\ NoNotesCall
    /\ NoPeaksCall /\ NoBufferCall /\ NoBlobCall /\ NoCombinationsCall /\ NoOverlapCall
    /\ NoLoopCall /\ NoRecorderCall /\ NoPage

\* analyzeAudio after the await (lines 88-135)
AnalyzeAudio ==
    /\ phase = "ready"
    /\ phase' = "returned"
    /\ isCorrect' = \E i \in DOMAIN detectedChords :
                        SomeCallback(Normalize(detectedChords[i]), Normalize(expectedChord))
    /\ UNCHANGED <<stageVars, combVars, overlapVars, loopVars, recVars, pageVars,
                   expectedChord, detectedChords>>

NextMatch == AnalyzeAudio

SpecMatch == InitMatch /\ [][NextMatch]_vars

\* The root of a chord name as the detection writes it: the note letter
\* with its accidental
ChordRoot(name) ==
    IF name = <<>> \/ name[1] \notin {"A", "B", "C", "D", "E", "F", "G"} THEN <<>>
    ELSE IF Len(name) >= 2 /\ name[2] \in {"#", "b"} THEN SubSeq(name, 1, 2)
    ELSE <<name[1]>>

\* The root of an expected name "X Major" or "X Minor"
ExpectedRoot(name) == ChordRoot(name)

\* The text after the root, up to a slash
RECURSIVE UpToSlash(_)
UpToSlash(name) ==
    IF name = <<>> \/ Head(name) = "/" THEN <<>> ELSE <<Head(name)>> \o UpToSlash(Tail(name))

ChordQuality(name) == UpToSlash(SubSeq(name, Len(ChordRoot(name)) + 1, Len(name)))

ExpectsMajor == IncludesWord(expectedChord, <<" ", "M", "a", "j", "o", "r">>)

ExpectsMinor == IncludesWord(expectedChord, <<" ", "M", "i", "n", "o", "r">>)

\* C28: when the expected chord is a plain major triad, analyzeAudio returns
\* true only if some detected chord has the root of the expected chord; with
\* only other roots detected, roots that begin with the same letter (C#, Cb)
\* included, it returns false.
C28_MajorNeedsSameRoot ==
    (phase = "returned" /\ ExpectsMajor /\ isCorrect) =>
        \E i \in DOMAIN detectedChords :
            ChordRoot(detectedChords[i]) = ExpectedRoot(expectedChord)

\* C29: when the expected chord is a minor triad, analyzeAudio returns true
\* only if some detected chord has the same root and a minor quality (Em,
\* Em/G, Em/B); a chord of that root whose name only contains the letter m
\* (Emaj7) is not accepted.
C29_MinorNeedsMinorQuality ==
    (phase = "returned" /\ ExpectsMinor /\ isCorrect) =>
        \E i \in DOMAIN detectedChords :
            /\ ChordRoot(detectedChords[i]) = ExpectedRoot(expectedChord)
            /\ StartsWith(ChordQuality(detectedChords[i]), <<"m">>)
            /\ ~StartsWith(ChordQuality(detectedChords[i]), <<"m", "a", "j">>)


(***************************************************************************)
(* SpecPage: the practice page (chord-practice-client.tsx) in the modes    *)
(* "all" and "group", with one recorder at a time. The handlers of a       *)
(* recorder are made in startRecording and close over the currentChord of  *)
(* the render that was clicked. attempts has one entry per Start Recording *)
(* click: the chord shown at the click and at the stop, the chord          *)
(* analyzeAudio was given and the feedback that came of it. The 3-second   *)
(* timeouts run in the order they were set.                                *)
(***************************************************************************)
MaxAttempts == 2

PracticeChords == {"C Major", "G Major", "D Major"}

PracticeModes == {"all", "group"}

InitPage ==
    /\ phase = "ready"
    /\ currentChord \in PracticeChords
    /\ practiceMode = "all"
    /\ pageRecording = FALSE
    /\ pageAnalyzing = FALSE
    /\ visualFeedback = "none"
    /\ closure = NoClosure
    /\ timeouts = <<>>
    /\ attempts = <<>>
    /\ NoConfidenceCall /\ NoChordCall /\ NoFilterCall /\ NoExtractCall /\ NoNotesCall
    /\ NoPeaksCall /\ NoBufferCall /\ NoBlobCall /\ NoCombinationsCall /\ NoOverlapCall
    /\ NoLoopCall /\ NoRecorderCall /\ NoMatchCall

\* Start Recording clicked: startRecording up to the await (lines 113-115);
\* the button is disabled while analyzing (part_004 35-38).
StartRecordingClicked ==
    /\ ~pageRecording /\ ~pageAnalyzing
    /\ closure = NoClosure
    /\ Len(attempts) < MaxAttempts
    /\ phase' = "Start Recording"
    /\ closure' = [state |-> "starting", chord |-> currentChord, attempt |-> Len(attempts) + 1]
    /\ attempts' = Append(attempts,
                          [began |-> currentChord, shown |-> "", judged |-> "", result |-> "none"])
    /\ UNCHANGED <<stageVars, combVars, overlapVars, loopVars, recVars, matchVars,
                   currentChord, practiceMode, pageRecording, pageAnalyzing, visualFeedback, timeouts>>

\* startRecording after the await (lines 115-177)
PageMediaSettled(granted) ==
    /\ closure.state = "starting"
    /\ phase' = "getUserMedia"
    /\ IF granted
       THEN closure' = [closure EXCEPT !.state = "recording"] /\ pageRecording' = TRUE
       ELSE closure' = NoClosure /\ UNCHANGED pageRecording
    /\ UNCHANGED <<stageVars, combVars, overlapVars, loopVars, recVars, matchVars,
                   currentChord, practiceMode, pageAnalyzing, visualFeedback, timeouts, attempts>>

\* selectNextChord (lines 27-51): a random chord, and the feedback cleared
SelectNextChord(next) ==
    /\ currentChord' = next
    /\ visualFeedback' = "none"

\* Skip Chord clicked; the button is disabled while analyzing (part_004 51-56)
SkipChord(next) ==
    /\ ~pageAnalyzing
    /\ phase' = "Skip Chord"
    /\ SelectNextChord(next)
    /\ UNCHANGED <<stageVars, combVars, overlapVars, loopVars, recVars, matchVars,
                   practiceMode, pageRecording, pageAnalyzing, closure, timeouts, attempts>>

\* The practice mode is changed and the effect of lines 59-63 runs.
PracticeModeChanged(mode, next) ==
    /\ mode # practiceMode
    /\ phase' = "practice mode"
    /\ practiceMode' = mode
    /\ SelectNextChord(next)
    /\ UNCHANGED <<stageVars, combVars, overlapVars, loopVars, recVars, matchVars,
                   pageRecording, pageAnalyzing, closure, timeouts, attempts>>

\* Stop Recording clicked: stopRecording (lines 180-185)
StopRecordingClicked ==
    /\ pageRecording /\ closure.state = "recording"
    /\ phase' = "Stop Recording"
    /\ closure' = [closure EXCEPT !.state = "stopping"]
    /\ pageRecording' = FALSE
    /\ attempts' = [attempts EXCEPT ![closure.attempt].shown = currentChord]
    /\ UNCHANGED <<stageVars, combVars, overlapVars, loopVars, recVars, matchVars,
                   currentChord, practiceMode, pageAnalyzing, visualFeedback, timeouts>>

\* The chord the onstop handler hands to analyzeAudio (lines 127, 132)
ChordInClosure(shown, captured) == captured

\* recorder.onstop up to the await of analyzeAudio (lines 122-132)
RecorderStopped ==
    /\ closure.state = "stopping"
    /\ phase' = "onstop"
    /\ pageAnalyzing' = TRUE
    /\ visualFeedback' = "none"
    /\ attempts' = [attempts EXCEPT ![closure.attempt].judged =
                        ChordInClosure(currentChord, closure.chord)]
    /\ closure' = [closure EXCEPT !.state = "analyzing"]
    /\ UNCHANGED <<stageVars, combVars, overlapVars, loopVars, recVars, matchVars,
                   currentChord, practiceMode, pageRecording, timeouts>>

\* recorder.onstop after the await (lines 134-168), in the modes "all" and
\* "group"
AnalysisSettled(correct) ==
    /\ closure.state = "analyzing"
    /\ phase' = "analyzed"
    /\ visualFeedback' = IF correct THEN "success" ELSE "error"
    /\ timeouts' = Append(timeouts, [kind |-> IF correct THEN "advance" ELSE "clear",
                                     attempt |-> closure.attempt])
    /\ pageAnalyzing' = FALSE
    /\ attempts' = [attempts EXCEPT ![closure.attempt].result =
                        IF correct THEN "success" ELSE "error"]
    /\ closure' = NoClosure
    /\ UNCHANGED <<stageVars, combVars, overlapVars, loopVars, recVars, matchVars,
                   currentChord, practiceMode, pageRecording>>

\* The oldest timeout runs (lines 142-144, 150-152).
TimeoutFires(next) ==
    /\ timeouts # <<>>
    /\ phase' = "timeout"
    /\ timeouts' = Tail(timeouts)
    /\ IF Head(timeouts).kind = "advance"
       THEN SelectNextChord(next)
       ELSE visualFeedback' = "none" /\ UNCHANGED currentChord
    /\ UNCHANGED <<stageVars, combVars, overlapVars, loopVars, recVars, matchVars,
                   practiceMode, pageRecording, pageAnalyzing, closure, attempts>>

NextPage ==
    \/ StartRecordingClicked
    \/ \E granted \in BOOLEAN : PageMediaSettled(granted)
    \/ \E next \in PracticeChords : SkipChord(next)
    \/ \E mode \in PracticeModes, next \in PracticeChords : PracticeModeChanged(mode, next)
    \/ StopRecordingClicked
    \/ RecorderStopped
    \/ \E correct \in BOOLEAN : AnalysisSettled(correct)
    \/ \E next \in PracticeChords : TimeoutFires(next)

SpecPage == InitPage /\ [][NextPage]_vars

\* analyzeAudio was given the chord that was shown at the stop.
JudgedAgainstShown ==
    \A n \in DOMAIN attempts : attempts[n].judged # "" => attempts[n].judged = attempts[n].shown

\* The attempt the feedback on display came from
FeedbackOwner ==
    IF \E n \in DOMAIN attempts : attempts[n].result # "none"
    THEN CHOOSE n \in DOMAIN attempts :
             /\ attempts[n].result # "none"
             /\ \A k \in DOMAIN attempts : attempts[k].result # "none" => k <= n
    ELSE 0

\* A timeout of an earlier attempt leaves the feedback of a later attempt
\* and the chord of a later attempt alone.
TimeoutsKeepLaterAttempt ==
    (phase' = "timeout" /\ timeouts # <<>> /\ timeouts' = Tail(timeouts)) =>
        /\ (visualFeedback # "none" /\ FeedbackOwner > Head(timeouts).attempt) =>
               visualFeedback' = visualFeedback
        /\ (\E n \in DOMAIN attempts :
                n > Head(timeouts).attempt /\ attempts[n].began = currentChord) =>
               currentChord' = currentChord

\* C30: a recording is judged against the chord displayed when the recording
\* is stopped and the feedback belongs to that chord: for every interleaving
\* of Start Recording, Skip Chord and practice-mode changes, Stop Recording
\* and the 3-second timers, analyzeAudio receives the current chord, and a
\* timer of an earlier attempt never clears the feedback of a later attempt
\* nor skips past a later attempt's chord.
C30_JudgedAgainstDisplayedChord ==
    /\ []JudgedAgainstShown
    /\ [][TimeoutsKeepLaterAttempt]_vars

=============================================================================
